---- MODULE Spec2Model ----
(***************************************************************************)
(* State core of chill-mcp: the stress tracker (AgentStressState), the     *)
(* alert tracker (BossAlertState), the coordinating ChillState with its    *)
(* lock and cooldown thread, and the break / status tools that call it.    *)
(* Time is the reading of datetime.now() in whole seconds; a critical      *)
(* section is shorter than one second, so the reading does not change      *)
(* while the lock is held.                                                 *)
(***************************************************************************)
EXTENDS Integers, FiniteSets, Sequences, TLC

\* ------------------------------------------------------------------------
\* Program constants
\* ------------------------------------------------------------------------
SecondsPerMinute == 60
MaxStress == 100
MaxAlert == 5
MinDraw == 1
MaxDraw == 100
DelaySeconds == 20
WorkerPeriod == 1

\* ------------------------------------------------------------------------
\* Bounds of the model
\* ------------------------------------------------------------------------
MaxOffset == 1
MaxMinutes == 100
MaxBreaks == 6
MaxRecorded == 32
MaxVaried == 1
MaxCustomRecorded == 3
MaxSent == 4
MaxProcesses == 2
MaxCooldown == 2
MaxJump == 2

Callers == {"c1", "c2"}
Worker == "w"
Threads == Callers \cup {Worker}
NoThread == "none"

\* clock readings the program can observe: a few consecutive seconds at the
\* start, at the end of a mandated delay and MaxMinutes minutes later
Bases == {0, DelaySeconds, MaxMinutes * SecondsPerMinute}
Instants == {b + k : b \in Bases, k \in 0..MaxOffset}

\* values of random.randint(1, 100) that are tried
ReductionDraws == {50, MaxDraw}
AlertDraws == {MinDraw, 50, 51, MaxDraw}

\* configurations that are constructed
ConfigProbabilities == {0, 50, 100}
ConfigCooldowns == {1, 86400}

Min(a, b) == IF a <= b THEN a ELSE b
Max(a, b) == IF a >= b THEN a ELSE b

VARIABLES
    now,                    \* datetime.now()
    alertness_probability,  \* BossAlertState.alertness_probability
    cooldown_seconds,       \* BossAlertState.cooldown_seconds
    agent_level,            \* AgentStressState.level
    last_break_time,        \* AgentStressState.last_break_time
    boss_level,             \* BossAlertState.level
    last_cooldown_time,     \* BossAlertState.last_cooldown_time
    lock,                   \* ChillState.lock: the holder, or NoThread
    pc,                     \* position of every thread
    loc,                    \* local variables of every thread
    out,                    \* what the step just taken returned to its caller
    serial,                 \* the tracker fields after the completed
                            \* critical sections, replayed one after another
    break_count,            \* take_break calls completed in a burst (see
                            \* Burst), saturating at MaxBreaks
    history,                \* what the run has done so far: the clock reading
                            \* of the last change of the alert level, and
                            \* whether the configuration went through
                            \* parse_runtime_config
    web                     \* the dashboard (webapp/app.py): EVENT_LOG, the
                            \* requests being handled and the answer just given

vars == <<now, alertness_probability, cooldown_seconds, agent_level,
          last_break_time, boss_level, last_cooldown_time, lock, pc, loc,
          out, serial, break_count, history, web>>

config == <<alertness_probability, cooldown_seconds>>
trackers == <<agent_level, last_break_time, boss_level, last_cooldown_time>>

NoLocals == [t_apply |-> 0, reduction |-> 0, t_reduce |-> 0, hit |-> FALSE,
             old_level |-> 0, t_reg |-> 0, wake |-> 0, stress |-> 0,
             boss |-> 0, should_delay |-> FALSE, t_sleep |-> 0,
             performing |-> FALSE, options |-> 0, apply_delay |-> FALSE]

NoHistory == [last_change |-> 0, validated |-> TRUE]

\* the coroutines that handle the dashboard's HTTP requests
Handlers == {"h1", "h2"}

NoRequest == [pc |-> "idle", tool |-> "none"]

\* web.response when the step just taken answered no request
NoResponse == [handler |-> "none", request |-> "none", tool |-> "none",
               code |-> 0, status |-> "none"]

\* a call_tool that has not been made, and the step that returned nothing
NoCall == [pc |-> "idle", reader |-> 0]

NoReturn == [handler |-> "none", kind |-> "none", request_id |-> 0,
             response_id |-> 0, request |-> 0, line |-> 0]

\* MCPClient() after __init__. process counts the server processes that
\* were started and alive tells whether _process is one that runs;
\* initialized, request_id and lock are _initialized, _request_id and _lock;
\* task is the position of each caller of call_tool and reader the request
\* its executor thread waits for. log lists the requests written to the
\* stdin of the running process, answered counts the response lines the
\* server has written and consumed those that a readline has returned;
\* holder is the request of the thread that is inside the read of stdout
\* and waiting are those of the threads that queue behind it; handshakes
\* counts the handshakes completed with the running process; returned is
\* what the step just taken returned or raised to a caller
NoClient == [process |-> 0, alive |-> FALSE, initialized |-> FALSE,
             request_id |-> 0, lock |-> "none",
             task |-> [h \in Handlers |-> NoCall],
             log |-> <<>>, answered |-> 0, consumed |-> 0,
             holder |-> 0, waiting |-> {}, handshakes |-> 0,
             returned |-> NoReturn]

\* a dashboard that has handled no request yet. event_log is EVENT_LOG, an
\* entry being the tool and the position n of its record_event call in the
\* run; client is the kind of MCP client create_app was given; sent lists
\* the tool calls that the step just taken made on the MCP client, each with
\* its outcome, and response is the answer that step gave; recorded and
\* varied count the record_event calls and the requests for CoffeeTool
NoWeb == [event_log |-> <<>>, client |-> "fake",
          req |-> [h \in Handlers |-> NoRequest],
          sent |-> <<>>, response |-> NoResponse,
          recorded |-> 0, varied |-> 0, mcp |-> NoClient]

\* out.kind: "none", "break" (a break tool's response), "status"
\* (ChillState.snapshot as returned to check_stress_status), "property"
\* (boss_alert_level), "cooldown" (the result of a cooldown step that
\* changed the level), "register" (the pair register_break returns on a hit,
\* which take_break logs as an increase), "draw" (the random.randint of the
\* probability check and whether it counted as a hit), "config_error"
\* (parser.error), "outcome" (the BreakOutcome of perform_break) or
\* "value_error" (the ValueError of perform_break)
NoOut == [kind |-> "none", thread |-> NoThread, stress_level |-> 0,
          boss_alert_level |-> 0, should_delay |-> FALSE, timestamp |-> 0,
          old_level |-> 0, elapsed |-> 0,
          last_break_time |-> 0, boss_alertness |-> 0,
          boss_alertness_cooldown |-> 0, last_boss_cooldown_time |-> 0,
          draw |-> 0, hit |-> FALSE, reduction |-> 0,
          apply_delay |-> FALSE, delay_applied |-> FALSE]

\* ------------------------------------------------------------------------
\* AgentStressState
\* ------------------------------------------------------------------------
\* int(x) of Python truncates toward zero
IntTruncNearest(seconds) ==
    IF seconds >= 0
    THEN (seconds + SecondsPerMinute \div 2) \div SecondsPerMinute
    ELSE -((-seconds + SecondsPerMinute \div 2) \div SecondsPerMinute)

IntTrunc(seconds) ==
    IF seconds >= 0 THEN seconds \div SecondsPerMinute
    ELSE -((-seconds) \div SecondsPerMinute)

apply_elapsed_time_reset(level, last_break, t) ==
    LET increase == IntTrunc(t - last_break)
    IN  [level |-> IF increase > 0 THEN Min(MaxStress, level + increase)
                   ELSE level,
         last_break_time |-> t]

apply_elapsed_time_advance(level, last_break, t) ==
    LET increase == IntTrunc(t - last_break)
    IN  [level |-> IF increase > 0 THEN Min(MaxStress, level + increase)
                   ELSE level,
         last_break_time |-> IF increase > 0
                             THEN last_break + increase * SecondsPerMinute
                             ELSE last_break]

apply_elapsed_time(level, last_break, t) ==
    LET increase == IntTrunc(t - last_break)
    IN  [level |-> IF increase > 0 THEN Min(MaxStress, level + increase)
                   ELSE level,
         last_break_time |-> last_break]

reduce_for_break_scaled(level, reduction, t) ==
    [level |-> Max(0, level - (reduction * level) \div MaxStress),
     last_break_time |-> t]

reduce_for_break(level, reduction, t) ==
    [level |-> Max(0, level - reduction), last_break_time |-> t]

\* ------------------------------------------------------------------------
\* BossAlertState
\* ------------------------------------------------------------------------
register_break_hit_strict(probability, draw) ==
    IF probability <= 0 THEN FALSE ELSE draw < probability

register_break_hit(probability, draw) ==
    IF probability <= 0 THEN FALSE ELSE draw <= probability

register_break_level_uncapped(level) == level + 1

register_break_level(level) == Min(MaxAlert, level + 1)

cooldown_step_unfloored(level, last_cooldown, cooldown, reference_time) ==
    LET elapsed == reference_time - last_cooldown
    IN  IF elapsed >= cooldown
        THEN [level |-> level - 1, last_cooldown_time |-> reference_time,
              changed |-> TRUE, old_level |-> level, elapsed |-> elapsed]
        ELSE [level |-> level, last_cooldown_time |-> last_cooldown,
              changed |-> FALSE, old_level |-> level, elapsed |-> elapsed]

cooldown_step_floor(level, last_cooldown, cooldown, reference_time) ==
    LET elapsed == reference_time - last_cooldown
    IN  IF elapsed >= cooldown /\ level > 1
        THEN [level |-> Max(0, level - 1), last_cooldown_time |-> reference_time,
              changed |-> TRUE, old_level |-> level, elapsed |-> elapsed]
        ELSE [level |-> level, last_cooldown_time |-> last_cooldown,
              changed |-> FALSE, old_level |-> level, elapsed |-> elapsed]

cooldown_step_strict(level, last_cooldown, cooldown, reference_time) ==
    LET elapsed == reference_time - last_cooldown
    IN  IF elapsed > cooldown /\ level > 0
        THEN [level |-> Max(0, level - 1), last_cooldown_time |-> reference_time,
              changed |-> TRUE, old_level |-> level, elapsed |-> elapsed]
        ELSE [level |-> level, last_cooldown_time |-> last_cooldown,
              changed |-> FALSE, old_level |-> level, elapsed |-> elapsed]

cooldown_step_early(level, last_cooldown, cooldown, reference_time) ==
    LET elapsed == reference_time - last_cooldown
    IN  IF elapsed >= cooldown - 1 /\ level > 0
        THEN [level |-> Max(0, level - 1), last_cooldown_time |-> reference_time,
              changed |-> TRUE, old_level |-> level, elapsed |-> elapsed]
        ELSE [level |-> level, last_cooldown_time |-> last_cooldown,
              changed |-> FALSE, old_level |-> level, elapsed |-> elapsed]

cooldown_step(level, last_cooldown, cooldown, reference_time) ==
    LET elapsed == reference_time - last_cooldown
    IN  IF elapsed >= cooldown /\ level > 0
        THEN [level |-> Max(0, level - 1), last_cooldown_time |-> reference_time,
              changed |-> TRUE, old_level |-> level, elapsed |-> elapsed]
        ELSE [level |-> level, last_cooldown_time |-> last_cooldown,
              changed |-> FALSE, old_level |-> level, elapsed |-> elapsed]

\* last_cooldown_time after a hit that took the level from old_level to
\* new_level at clock reading t
register_break_time_always(old_level, new_level, last_cooldown, t) == t

register_break_time(old_level, new_level, last_cooldown, t) ==
    IF new_level # old_level THEN t ELSE last_cooldown

agent_snapshot(level, last_break) ==
    [stress_level |-> level, last_break_time |-> last_break]

boss_snapshot_swapped(level, probability, cooldown, last_cooldown) ==
    [boss_alert_level |-> level, boss_alertness |-> cooldown,
     boss_alertness_cooldown |-> probability,
     last_boss_cooldown_time |-> last_cooldown]

boss_snapshot(level, probability, cooldown, last_cooldown) ==
    [boss_alert_level |-> level, boss_alertness |-> probability,
     boss_alertness_cooldown |-> cooldown,
     last_boss_cooldown_time |-> last_cooldown]

should_delay_early(level) == level >= MaxAlert - 1

should_delay(level) == level = MaxAlert

\* ------------------------------------------------------------------------
\* Replay of one complete critical section on the serial copy
\* ------------------------------------------------------------------------
SerialTakeBreak(s, l) ==
    LET accrued == apply_elapsed_time(s.agent_level, s.last_break_time, l.t_apply)
        reduced == reduce_for_break(accrued.level, l.reduction, l.t_reduce)
        raised == register_break_level(s.boss_level)
    IN  [agent_level |-> reduced.level,
         last_break_time |-> reduced.last_break_time,
         boss_level |-> IF l.hit THEN raised ELSE s.boss_level,
         last_cooldown_time |->
             IF l.hit /\ raised # s.boss_level THEN l.t_reg
             ELSE s.last_cooldown_time]

SerialSnapshot(s, l) ==
    LET accrued == apply_elapsed_time(s.agent_level, s.last_break_time, l.t_apply)
    IN  [s EXCEPT !.agent_level = accrued.level,
                  !.last_break_time = accrued.last_break_time]

SerialCooldown(s, cooldown, t) ==
    LET r == cooldown_step(s.boss_level, s.last_cooldown_time, cooldown, t)
    IN  [s EXCEPT !.boss_level = r.level,
                  !.last_cooldown_time = r.last_cooldown_time]

\* the configurations of a burst of breaks: every break raises the alert
\* level and the cooldown never fires
Burst ==
    /\ alertness_probability = MaxDraw
    /\ \A t \in Instants : t < cooldown_seconds

Fields == [agent_level |-> agent_level, last_break_time |-> last_break_time,
           boss_level |-> boss_level, last_cooldown_time |-> last_cooldown_time]

\* ------------------------------------------------------------------------
\* Construction
\* ------------------------------------------------------------------------
Init ==
    /\ now = 0
    /\ alertness_probability \in ConfigProbabilities
    /\ cooldown_seconds \in ConfigCooldowns
    /\ agent_level = 0
    /\ last_break_time = 0
    /\ boss_level = 0
    /\ last_cooldown_time = 0
    /\ lock = NoThread
    /\ pc = [t \in Threads |-> IF t = Worker THEN "w_sleep" ELSE "idle"]
    /\ loc = [t \in Threads |->
                IF t = Worker THEN [NoLocals EXCEPT !.wake = WorkerPeriod]
                ELSE NoLocals]
    /\ out = NoOut
    /\ serial = [agent_level |-> 0, last_break_time |-> 0, boss_level |-> 0,
                 last_cooldown_time |-> 0]
    /\ break_count = 0
    /\ history = NoHistory
    /\ web = NoWeb

\* ------------------------------------------------------------------------
\* The clock
\* ------------------------------------------------------------------------
\* time.sleep(n) ends when the clock has advanced by n seconds or more
Sleeping(th) == pc[th] \in {"w_sleep", "delay"}

AfterSleep(th) == IF th = Worker THEN "w_lock" ELSE "respond"

Advance ==
    /\ lock = NoThread
    /\ \E t \in Instants :
         /\ t > now
         /\ now' = t
         /\ pc' = [th \in Threads |->
                     IF Sleeping(th) /\ t >= loc[th].wake
                     THEN AfterSleep(th) ELSE pc[th]]
         /\ loc' = [th \in Threads |->
                     IF Sleeping(th) /\ t >= loc[th].wake
                     THEN [loc[th] EXCEPT !.wake = 0] ELSE loc[th]]
    /\ out' = NoOut
    /\ UNCHANGED <<config, trackers, lock, serial, break_count, history, web>>

\* ------------------------------------------------------------------------
\* The lock
\* ------------------------------------------------------------------------
lock_acquire_unguarded(t) == lock' = t

lock_acquire_worker_lock(t) ==
    IF t = Worker THEN lock' = lock ELSE lock = NoThread /\ lock' = t

lock_acquire(t) == lock = NoThread /\ lock' = t

lock_release_kept(t) == lock' = lock

lock_release(t) == lock' = NoThread

\* the clock reading at which a time.sleep(20) that starts at reading start
\* is over
mandated_delay_end_ms(start) == start + DelaySeconds \div 1000

mandated_delay_end(start) == start + DelaySeconds

\* the lock after take_break has returned to a caller that must (delay) or
\* need not pause: the with block ends before the caller sleeps
lock_after_take_break_held(t, delay) == IF delay THEN t ELSE NoThread

lock_after_take_break(t, delay) == NoThread

\* ------------------------------------------------------------------------
\* ChillState.take_break, called by take_break_and_format
\* ------------------------------------------------------------------------
TakeBreakAcquire(t) ==
    /\ pc[t] = "idle"
    /\ lock_acquire(t)
    /\ pc' = [pc EXCEPT ![t] = "tb_apply"]
    /\ out' = NoOut
    /\ UNCHANGED <<now, config, trackers, loc, serial, break_count, history, web>>

TakeBreakApply(t) ==
    /\ pc[t] = "tb_apply"
    /\ LET r == apply_elapsed_time(agent_level, last_break_time, now)
       IN  /\ agent_level' = r.level
           /\ last_break_time' = r.last_break_time
    /\ loc' = [loc EXCEPT ![t].t_apply = now]
    /\ pc' = [pc EXCEPT ![t] = "tb_reduce"]
    /\ out' = NoOut
    /\ UNCHANGED <<now, config, boss_level, last_cooldown_time, lock, serial,
                   break_count, history, web>>

TakeBreakReduce(t) ==
    /\ pc[t] = "tb_reduce"
    /\ \E reduction \in ReductionDraws :
         /\ LET r == reduce_for_break(agent_level, reduction, now)
            IN  /\ agent_level' = r.level
                /\ last_break_time' = r.last_break_time
         /\ loc' = [loc EXCEPT ![t].reduction = reduction, ![t].t_reduce = now]
    /\ pc' = [pc EXCEPT ![t] = "tb_register"]
    /\ out' = NoOut
    /\ UNCHANGED <<now, config, boss_level, last_cooldown_time, lock, serial,
                   break_count, history, web>>

\* register_break up to the read of self.level
TakeBreakRegister(t) ==
    /\ pc[t] = "tb_register"
    /\ \E draw \in AlertDraws :
         LET hit == register_break_hit(alertness_probability, draw)
         IN  /\ loc' = [loc EXCEPT ![t].hit = hit,
                                   ![t].old_level = IF hit THEN boss_level ELSE 0]
             /\ pc' = [pc EXCEPT ![t] = IF hit THEN "tb_raise" ELSE "tb_return"]
             /\ out' = IF alertness_probability <= 0 THEN NoOut
                       ELSE [NoOut EXCEPT !.kind = "draw", !.thread = t,
                                          !.draw = draw, !.hit = hit]
    /\ UNCHANGED <<now, config, trackers, lock, serial, break_count, history, web>>

\* register_break from the store of self.level on
TakeBreakRaise(t) ==
    /\ pc[t] = "tb_raise"
    /\ boss_level' = register_break_level(loc[t].old_level)
    /\ last_cooldown_time' =
         register_break_time(loc[t].old_level, boss_level',
                             last_cooldown_time, now)
    /\ history' = [history EXCEPT !.last_change =
                      IF boss_level' # boss_level THEN now ELSE @]
    /\ web' = web
    /\ loc' = [loc EXCEPT ![t].t_reg = now]
    /\ pc' = [pc EXCEPT ![t] = "tb_return"]
    /\ out' = [NoOut EXCEPT !.kind = "register", !.thread = t,
                            !.old_level = loc[t].old_level,
                            !.boss_alert_level = boss_level']
    /\ UNCHANGED <<now, config, agent_level, last_break_time, lock, serial,
                   break_count>>

BreakResponseReread(t, stress, boss, delay) ==
    [NoOut EXCEPT !.kind = "break", !.thread = t, !.stress_level = agent_level,
                  !.boss_alert_level = boss_level, !.should_delay = delay]

BreakResponse(t, stress, boss, delay) ==
    [NoOut EXCEPT !.kind = "break", !.thread = t, !.stress_level = stress,
                  !.boss_alert_level = boss, !.should_delay = delay]

\* the end of take_break and, in take_break_and_format, either the response
\* or the start of the mandated delay
TakeBreakReturn(t) ==
    /\ pc[t] = "tb_return"
    /\ lock' = lock_after_take_break(t, should_delay(boss_level))
    /\ serial' = SerialTakeBreak(serial, loc[t])
    /\ break_count' = IF Burst THEN Min(MaxBreaks, break_count + 1)
                    ELSE break_count
    /\ IF should_delay(boss_level)
       THEN /\ loc' = [loc EXCEPT ![t] =
                        [NoLocals EXCEPT !.stress = agent_level,
                                         !.boss = boss_level,
                                         !.should_delay = TRUE,
                                         !.t_sleep = now,
                                         !.wake = mandated_delay_end(now)]]
            /\ pc' = [pc EXCEPT ![t] = "delay"]
            /\ out' = NoOut
       ELSE /\ loc' = [loc EXCEPT ![t] = NoLocals]
            /\ pc' = [pc EXCEPT ![t] = "idle"]
            /\ out' = BreakResponse(t, agent_level, boss_level, FALSE)
    /\ UNCHANGED <<now, config, trackers, history, web>>

\* take_break_and_format after time.sleep(20)
FormatEndDelay(t) ==
    /\ pc[t] = "respond"
    /\ out' = BreakResponse(t, loc[t].stress, loc[t].boss, loc[t].should_delay)
    /\ loc' = [loc EXCEPT ![t] = NoLocals]
    /\ pc' = [pc EXCEPT ![t] = "idle"]
    /\ UNCHANGED <<now, config, trackers, lock, serial, break_count, history, web>>

\* ------------------------------------------------------------------------
\* ChillState.snapshot, called by check_stress_status
\* ------------------------------------------------------------------------
SnapshotAcquire(t) ==
    /\ pc[t] = "idle"
    /\ lock_acquire(t)
    /\ pc' = [pc EXCEPT ![t] = "sn_apply"]
    /\ out' = NoOut
    /\ UNCHANGED <<now, config, trackers, loc, serial, break_count, history, web>>

SnapshotApply(t) ==
    /\ pc[t] = "sn_apply"
    /\ LET r == apply_elapsed_time(agent_level, last_break_time, now)
       IN  /\ agent_level' = r.level
           /\ last_break_time' = r.last_break_time
    /\ loc' = [loc EXCEPT ![t].t_apply = now]
    /\ pc' = [pc EXCEPT ![t] = "sn_collect"]
    /\ out' = NoOut
    /\ UNCHANGED <<now, config, boss_level, last_cooldown_time, lock, serial,
                   break_count, history, web>>

SnapshotCollect(t) ==
    /\ pc[t] = "sn_collect"
    /\ lock_release(t)
    /\ serial' = SerialSnapshot(serial, loc[t])
    /\ LET a == agent_snapshot(agent_level, last_break_time)
           b == boss_snapshot(boss_level, alertness_probability,
                              cooldown_seconds, last_cooldown_time)
       IN  out' = [NoOut EXCEPT
                     !.kind = "status", !.thread = t, !.timestamp = now,
                     !.stress_level = a.stress_level,
                     !.last_break_time = a.last_break_time,
                     !.boss_alert_level = b.boss_alert_level,
                     !.boss_alertness = b.boss_alertness,
                     !.boss_alertness_cooldown = b.boss_alertness_cooldown,
                     !.last_boss_cooldown_time = b.last_boss_cooldown_time]
    /\ loc' = [loc EXCEPT ![t] = NoLocals]
    /\ pc' = [pc EXCEPT ![t] = "idle"]
    /\ UNCHANGED <<now, config, trackers, break_count, history, web>>

\* ------------------------------------------------------------------------
\* ChillState.boss_alert_level (compatibility property)
\* ------------------------------------------------------------------------
CallBossAlertLevel(t) ==
    /\ pc[t] = "idle"
    /\ pc' = [pc EXCEPT ![t] = "prop_read"]
    /\ out' = NoOut
    /\ UNCHANGED <<now, config, trackers, lock, loc, serial, break_count,
                   history, web>>

BossAlertLevelRead(t) ==
    /\ pc[t] = "prop_read"
    /\ out' = [NoOut EXCEPT !.kind = "property", !.thread = t,
                            !.boss_alert_level = boss_level]
    /\ pc' = [pc EXCEPT ![t] = "idle"]
    /\ UNCHANGED <<now, config, trackers, lock, loc, serial, break_count,
                   history, web>>

\* ------------------------------------------------------------------------
\* ChillState._cooldown_worker
\* ------------------------------------------------------------------------
WorkerAcquire ==
    /\ pc[Worker] = "w_lock"
    /\ lock_acquire(Worker)
    /\ pc' = [pc EXCEPT ![Worker] = "w_step"]
    /\ out' = NoOut
    /\ UNCHANGED <<now, config, trackers, loc, serial, break_count, history, web>>

WorkerStep ==
    /\ pc[Worker] = "w_step"
    /\ LET r == cooldown_step(boss_level, last_cooldown_time,
                              cooldown_seconds, now)
       IN  /\ boss_level' = r.level
           /\ last_cooldown_time' = r.last_cooldown_time
           /\ out' = IF r.changed
                     THEN [NoOut EXCEPT !.kind = "cooldown", !.thread = Worker,
                                        !.old_level = r.old_level,
                                        !.boss_alert_level = r.level,
                                        !.elapsed = r.elapsed]
                     ELSE NoOut
    /\ history' = [history EXCEPT !.last_change =
                      IF boss_level' # boss_level THEN now ELSE @]
    /\ web' = web
    /\ lock_release(Worker)
    /\ serial' = SerialCooldown(serial, cooldown_seconds, now)
    /\ loc' = [loc EXCEPT ![Worker].wake = now + WorkerPeriod]
    /\ pc' = [pc EXCEPT ![Worker] = "w_sleep"]
    /\ UNCHANGED <<now, config, agent_level, last_break_time, break_count>>

\* ------------------------------------------------------------------------
\* The layered server
\* ------------------------------------------------------------------------
Next ==
    \/ Advance
    \/ \E t \in Callers : TakeBreakAcquire(t)
    \/ \E t \in Callers : TakeBreakApply(t)
    \/ \E t \in Callers : TakeBreakReduce(t)
    \/ \E t \in Callers : TakeBreakRegister(t)
    \/ \E t \in Callers : TakeBreakRaise(t)
    \/ \E t \in Callers : TakeBreakReturn(t)
    \/ \E t \in Callers : FormatEndDelay(t)
    \/ \E t \in Callers : SnapshotAcquire(t)
    \/ \E t \in Callers : SnapshotApply(t)
    \/ \E t \in Callers : SnapshotCollect(t)
    \/ \E t \in Callers : CallBossAlertLevel(t)
    \/ \E t \in Callers : BossAlertLevelRead(t)
    \/ WorkerAcquire
    \/ WorkerStep

Spec == Init /\ [][Next]_vars

\* ------------------------------------------------------------------------
\* Properties of the layered server
\* ------------------------------------------------------------------------
CriticalPCs == {"tb_apply", "tb_reduce", "tb_register", "tb_raise",
                "tb_return", "sn_apply", "sn_collect", "w_step"}
EntryPCs == {"tb_apply", "sn_apply", "w_step"}
SnapshotPCs == {"sn_apply", "sn_collect"}

Quiescent == \A t \in Threads : pc[t] \notin CriticalPCs

\* C1: in every reachable state the stress level is in 0..100 and the alert
\* level is in 0..5
LevelsInRange ==
    /\ agent_level \in 0..MaxStress
    /\ boss_level \in 0..MaxAlert

WitnessLevelsAtBounds == agent_level = MaxStress /\ boss_level = MaxAlert

\* C3: with alertness_probability = 100 the alert level at the end of a
\* take_break is min(level before the call + 1, 5), whatever was drawn
AlwaysHitRaises ==
    \A t \in Callers :
        (alertness_probability = 100 /\ pc[t] = "tb_return")
            => boss_level = Min(serial.boss_level + 1, MaxAlert)

WitnessHitAtCap ==
    \E t \in Callers :
        /\ alertness_probability = 100
        /\ pc[t] = "tb_return"
        /\ serial.boss_level = MaxAlert
        /\ boss_level = MaxAlert

\* C4: take_break reports a delay exactly when the alert level is 5 once its
\* own mutation is done, and the reported level is that level
DelayIffMaxLevel ==
    [][\A t \in Callers :
        (pc[t] = "tb_return" /\ pc'[t] # "tb_return")
            => LET delayed == pc'[t] = "delay"
               IN  /\ delayed <=> boss_level' = MaxAlert
                   /\ delayed => /\ loc'[t].should_delay
                                 /\ loc'[t].boss = boss_level'
                   /\ ~delayed => /\ out'.kind = "break"
                                  /\ ~out'.should_delay
                                  /\ out'.boss_alert_level = boss_level']_vars

WitnessDelayWithoutRaise ==
    \E t \in Callers :
        pc[t] = "tb_return" /\ boss_level = MaxAlert /\ ~loc[t].hit

\* C5: in a burst (every break hits, the cooldown never fires), once the
\* calls made so far are complete the alert level is min(number of calls, 5)
\* and the stress fields are those of the calls applied one after another
NoLostUpdate ==
    (Burst /\ Quiescent)
        => /\ boss_level = Min(break_count, MaxAlert)
           /\ agent_level = serial.agent_level
           /\ last_break_time = serial.last_break_time

WitnessBurstDone ==
    /\ Burst
    /\ Quiescent
    /\ break_count = MaxBreaks
    /\ boss_level = MaxAlert
    /\ agent_level > 0

\* C6: at most one thread is inside a critical section and it holds the
\* lock; a thread that enters its critical section, and a snapshot that is
\* returned, see the fields as the completed critical sections left them
MutualExclusion ==
    /\ Cardinality({t \in Threads : pc[t] \in CriticalPCs}) <= 1
    /\ \A t \in Threads : pc[t] \in CriticalPCs <=> lock = t
    /\ \A t \in Threads : pc[t] \in EntryPCs => Fields = serial
    /\ out.kind = "status" =>
         /\ out.stress_level = serial.agent_level
         /\ out.last_break_time = serial.last_break_time
         /\ out.boss_alert_level = serial.boss_level
         /\ out.last_boss_cooldown_time = serial.last_cooldown_time

WitnessPartialUpdateHidden ==
    \E t \in Callers :
        /\ pc[t] = "tb_raise"
        /\ Fields # serial
        /\ pc[Worker] = "w_lock"

\* C7: every thread that is about to read or write a tracker field holds
\* the lock
LockHeldOnEveryAccess ==
    \A t \in Threads :
        pc[t] \in CriticalPCs \cup {"prop_read"} => lock = t

\* C8: a caller that waits out its delay does not hold the lock, and the
\* lock is free whenever no thread is inside a critical section
DelayOutsideLock ==
    /\ \A t \in Callers : pc[t] \in {"delay", "respond"} => lock # t
    /\ Quiescent => lock = NoThread

WitnessOthersRunDuringDelay ==
    \E t \in Callers :
        /\ pc[t] = "delay"
        /\ out.kind = "status"
        /\ out.thread # t

\* the cooldown loop has run at the current clock reading and sleeps again
WorkerUpToDate == pc[Worker] = "w_sleep"

SnapshotFrame ==
    [][\A t \in Callers :
        (pc[t] # pc'[t] /\ (pc[t] \in SnapshotPCs \/ pc'[t] \in SnapshotPCs))
            => UNCHANGED <<boss_level, last_cooldown_time, last_break_time,
                           break_count>>]_vars

WitnessSnapshotAccrued ==
    /\ out.kind = "status"
    /\ out.stress_level > 0
    /\ boss_level > 0
    /\ last_break_time < now

\* ------------------------------------------------------------------------
\* The monolithic server of main.py: its own ChillState and tools
\* ------------------------------------------------------------------------
\* values of random.randint(0, 100) that are tried
MainAlertDraws == {0} \cup AlertDraws

update_stress(level, last_break, t) ==
    LET stress_increase == IntTrunc(t - last_break)
    IN  IF stress_increase > 0 THEN Min(MaxStress, level + stress_increase)
        ELSE level

main_boss_check(level, last_cooldown, boss_alertness, draw, t) ==
    IF draw <= boss_alertness
    THEN [level |-> Min(MaxAlert, level + 1), last_boss_cooldown_time |-> t,
          boss_alert_increased |-> TRUE]
    ELSE [level |-> level, last_boss_cooldown_time |-> last_cooldown,
          boss_alert_increased |-> FALSE]

main_cooldown(level, last_cooldown, cooldown, t) ==
    LET elapsed == t - last_cooldown
    IN  IF elapsed >= cooldown /\ level > 0
        THEN [level |-> Max(0, level - 1), last_boss_cooldown_time |-> t]
        ELSE [level |-> level, last_boss_cooldown_time |-> last_cooldown]

MainTakeBreakAcquire(t) ==
    /\ pc[t] = "idle"
    /\ lock_acquire(t)
    /\ pc' = [pc EXCEPT ![t] = "m_update"]
    /\ out' = NoOut
    /\ UNCHANGED <<now, config, trackers, loc, serial, break_count, history, web>>

MainUpdateStress(t) ==
    /\ pc[t] = "m_update"
    /\ agent_level' = update_stress(agent_level, last_break_time, now)
    /\ pc' = [pc EXCEPT ![t] = "m_reduce"]
    /\ out' = NoOut
    /\ UNCHANGED <<now, config, last_break_time, boss_level,
                   last_cooldown_time, lock, loc, serial, break_count, history, web>>

MainReduce(t) ==
    /\ pc[t] = "m_reduce"
    /\ \E stress_reduction \in ReductionDraws :
         agent_level' = Max(0, agent_level - stress_reduction)
    /\ pc' = [pc EXCEPT ![t] = "m_boss"]
    /\ out' = NoOut
    /\ UNCHANGED <<now, config, last_break_time, boss_level,
                   last_cooldown_time, lock, loc, serial, break_count, history, web>>

MainBossCheck(t) ==
    /\ pc[t] = "m_boss"
    /\ \E draw \in MainAlertDraws :
         LET r == main_boss_check(boss_level, last_cooldown_time,
                                  alertness_probability, draw, now)
         IN  /\ boss_level' = r.level
             /\ last_cooldown_time' = r.last_boss_cooldown_time
             /\ loc' = [loc EXCEPT ![t].hit = r.boss_alert_increased]
             /\ out' = [NoOut EXCEPT !.kind = "draw", !.thread = t,
                                     !.draw = draw,
                                     !.hit = r.boss_alert_increased]
    /\ history' = [history EXCEPT !.last_change =
                      IF boss_level' # boss_level THEN now ELSE @]
    /\ web' = web
    /\ last_break_time' = now
    /\ pc' = [pc EXCEPT ![t] = "m_return"]
    /\ UNCHANGED <<now, config, agent_level, lock, serial, break_count>>

MainTakeBreakReturn(t) ==
    /\ pc[t] = "m_return"
    /\ lock_release(t)
    /\ IF boss_level = MaxAlert
       THEN /\ loc' = [loc EXCEPT ![t] =
                        [NoLocals EXCEPT !.stress = agent_level,
                                         !.boss = boss_level,
                                         !.should_delay = TRUE,
                                         !.t_sleep = now,
                                         !.wake = mandated_delay_end(now)]]
            /\ pc' = [pc EXCEPT ![t] = "delay"]
            /\ out' = NoOut
       ELSE /\ loc' = [loc EXCEPT ![t] = NoLocals]
            /\ pc' = [pc EXCEPT ![t] = "idle"]
            /\ out' = BreakResponse(t, agent_level, boss_level, FALSE)
    /\ UNCHANGED <<now, config, trackers, serial, break_count, history, web>>

MainStatusAcquire(t) ==
    /\ pc[t] = "idle"
    /\ lock_acquire(t)
    /\ pc' = [pc EXCEPT ![t] = "m_status"]
    /\ out' = NoOut
    /\ UNCHANGED <<now, config, trackers, loc, serial, break_count, history, web>>

MainStatusRead(t) ==
    /\ pc[t] = "m_status"
    /\ agent_level' = update_stress(agent_level, last_break_time, now)
    /\ lock_release(t)
    /\ out' = [NoOut EXCEPT !.kind = "status", !.thread = t,
                            !.stress_level = agent_level',
                            !.boss_alert_level = boss_level]
    /\ pc' = [pc EXCEPT ![t] = "idle"]
    /\ UNCHANGED <<now, config, last_break_time, boss_level,
                   last_cooldown_time, loc, serial, break_count, history, web>>

MainWorkerAcquire ==
    /\ pc[Worker] = "w_lock"
    /\ lock_acquire(Worker)
    /\ pc' = [pc EXCEPT ![Worker] = "m_w_step"]
    /\ out' = NoOut
    /\ UNCHANGED <<now, config, trackers, loc, serial, break_count, history, web>>

MainWorkerStep ==
    /\ pc[Worker] = "m_w_step"
    /\ LET r == main_cooldown(boss_level, last_cooldown_time,
                              cooldown_seconds, now)
       IN  /\ boss_level' = r.level
           /\ last_cooldown_time' = r.last_boss_cooldown_time
    /\ history' = [history EXCEPT !.last_change =
                      IF boss_level' # boss_level THEN now ELSE @]
    /\ web' = web
    /\ lock_release(Worker)
    /\ loc' = [loc EXCEPT ![Worker].wake = now + WorkerPeriod]
    /\ pc' = [pc EXCEPT ![Worker] = "w_sleep"]
    /\ out' = NoOut
    /\ UNCHANGED <<now, config, agent_level, last_break_time, serial,
                   break_count>>

NextMain ==
    \/ Advance
    \/ \E t \in Callers : MainTakeBreakAcquire(t)
    \/ \E t \in Callers : MainUpdateStress(t)
    \/ \E t \in Callers : MainReduce(t)
    \/ \E t \in Callers : MainBossCheck(t)
    \/ \E t \in Callers : MainTakeBreakReturn(t)
    \/ \E t \in Callers : FormatEndDelay(t)
    \/ \E t \in Callers : MainStatusAcquire(t)
    \/ \E t \in Callers : MainStatusRead(t)
    \/ MainWorkerAcquire
    \/ MainWorkerStep

SpecMain == Init /\ [][NextMain]_vars

\* C2: with alertness_probability = 0 the alert level never leaves 0
ZeroProbabilityNeverRaises == alertness_probability = 0 => boss_level = 0

\* ------------------------------------------------------------------------
\* Two runs of the layered core side by side: the tracker variables are the
\* run in which additional snapshot calls are made, serial is the run without
\* them. Both runs read the same clock and draw the same numbers, and every
\* call is one complete critical section.
\* ------------------------------------------------------------------------
SetFields(f) ==
    /\ agent_level' = f.agent_level
    /\ last_break_time' = f.last_break_time
    /\ boss_level' = f.boss_level
    /\ last_cooldown_time' = f.last_cooldown_time

TwinTakeBreak(t) ==
    /\ pc[t] = "idle"
    /\ \E reduction \in ReductionDraws, draw \in AlertDraws :
         LET l == [NoLocals EXCEPT
                     !.t_apply = now, !.reduction = reduction,
                     !.t_reduce = now, !.t_reg = now,
                     !.hit = register_break_hit(alertness_probability, draw)]
             f == SerialTakeBreak(Fields, l)
         IN  /\ SetFields(f)
             /\ serial' = SerialTakeBreak(serial, l)
             /\ out' = BreakResponse(t, f.agent_level, f.boss_level,
                                     should_delay(f.boss_level))
    /\ UNCHANGED <<now, config, lock, pc, loc, break_count, history, web>>

TwinSnapshot(t) ==
    /\ pc[t] = "idle"
    /\ LET l == [NoLocals EXCEPT !.t_apply = now]
           f == SerialSnapshot(Fields, l)
       IN  /\ SetFields(f)
           /\ serial' = SerialSnapshot(serial, l)
           /\ out' = [NoOut EXCEPT !.kind = "status", !.thread = t,
                                   !.timestamp = now,
                                   !.stress_level = f.agent_level,
                                   !.last_break_time = f.last_break_time,
                                   !.boss_alert_level = f.boss_level]
    /\ UNCHANGED <<now, config, lock, pc, loc, break_count, history, web>>

\* a snapshot call that only the first run makes
TwinAdditionalSnapshot(t) ==
    /\ pc[t] = "idle"
    /\ SetFields(SerialSnapshot(Fields, [NoLocals EXCEPT !.t_apply = now]))
    /\ out' = NoOut
    /\ UNCHANGED <<now, config, lock, pc, loc, serial, break_count, history, web>>

TwinCooldown ==
    /\ pc[Worker] = "w_lock"
    /\ SetFields(SerialCooldown(Fields, cooldown_seconds, now))
    /\ serial' = SerialCooldown(serial, cooldown_seconds, now)
    /\ loc' = [loc EXCEPT ![Worker].wake = now + WorkerPeriod]
    /\ pc' = [pc EXCEPT ![Worker] = "w_sleep"]
    /\ out' = NoOut
    /\ UNCHANGED <<now, config, lock, break_count, history, web>>

NextTwin ==
    \/ Advance
    \/ \E t \in Callers : TwinTakeBreak(t)
    \/ \E t \in Callers : TwinSnapshot(t)
    \/ \E t \in Callers : TwinAdditionalSnapshot(t)
    \/ TwinCooldown

SpecTwin == Init /\ [][NextTwin]_vars

\* C11: the stress level and the alert level that a take_break or a snapshot
\* returns are those it returns in the run without the additional snapshot
\* calls
SnapshotInvisible ==
    out.kind \in {"break", "status"}
        => /\ out.stress_level = serial.agent_level
           /\ out.boss_alert_level = serial.boss_level

\* C12: once apply_elapsed_time has run at a clock reading, running it again
\* at that reading (the same whole minute since last_break_time, whatever the
\* minute count) leaves the stress level as the first call left it
ApplyElapsedIdempotent ==
    LET first == apply_elapsed_time(agent_level, last_break_time, now)
        second == apply_elapsed_time(first.level, first.last_break_time, now)
    IN  second.level = first.level

\* a thread takes the step of register_break (layered) or of the inline
\* alert check (main.py) that stores the level
RegisterStep(t) ==
    \/ pc[t] = "tb_raise" /\ pc'[t] = "tb_return"
    \/ pc[t] = "m_boss" /\ pc'[t] = "m_return"

\* C13: a hit while the alert level is 5 leaves the level at 5, and the
\* register step resets last_cooldown_time only when it raised the level
HitAtCapKeepsWindow ==
    [][\A t \in Callers :
        RegisterStep(t)
            => /\ (boss_level = MaxAlert /\ loc'[t].hit)
                    => boss_level' = MaxAlert
               /\ boss_level' = boss_level
                    => last_cooldown_time' = last_cooldown_time]_vars

\* C14: every decrement of the alert level happens cooldown_seconds or more
\* after the last change of the level, and is itself the last change from
\* then on
CooldownWindowRespected ==
    [][boss_level' < boss_level
        => /\ now' - history.last_change >= cooldown_seconds
           /\ history'.last_change = now']_vars

WitnessDecrementAfterRise ==
    /\ out.kind = "cooldown"
    /\ out.elapsed > cooldown_seconds
    /\ history.last_change = now
    /\ boss_level > 0

\* C15: a step that changes the alert level sets last_cooldown_time to the
\* clock reading of that step, and a step that leaves the level alone leaves
\* last_cooldown_time alone
LastChangeTimeTracksLevel ==
    [][/\ boss_level' # boss_level
            => last_cooldown_time' = now /\ now' = now
       /\ boss_level' = boss_level
            => last_cooldown_time' = last_cooldown_time]_vars

WitnessHitAtCapKeepsTime ==
    \E t \in Callers :
        /\ pc[t] = "tb_return"
        /\ loc[t].hit
        /\ loc[t].old_level = MaxAlert
        /\ last_cooldown_time < now

\* C16: the alert level stays in 0..5 and changes by one at a time, upwards
\* only in the register step of a take_break and downwards only in a step of
\* the cooldown loop; a result that register_break or cooldown_step returns
\* reports a level that differs from the old one
AlertStateMachine ==
    /\ [](out.kind \in {"register", "cooldown"}
            => out.boss_alert_level # out.old_level)
    /\ [][/\ boss_level' \in 0..MaxAlert
          /\ boss_level' > boss_level
               => /\ boss_level' = boss_level + 1
                  /\ \E t \in Callers : RegisterStep(t)
          /\ boss_level' < boss_level
               => /\ boss_level' = boss_level - 1
                  /\ pc[Worker] = "w_step"
                  /\ pc'[Worker] = "w_sleep"]_vars

\* a thread takes the step of take_break that runs reduce_for_break
ReduceStep(t) == pc[t] = "tb_reduce" /\ pc'[t] = "tb_register"

\* C17: last_break_time changes only in the reduce_for_break step of a
\* take_break, which sets it to the clock reading of the call; the accrual
\* step, snapshot and the cooldown loop leave it alone
LastBreakTimeOnlyByBreak ==
    [][/\ last_break_time' # last_break_time
            => \E t \in Callers : ReduceStep(t)
       /\ \A t \in Callers :
            ReduceStep(t) => last_break_time' = now /\ now' = now]_vars

WitnessBreakMovesLastBreakTime ==
    \E t \in Callers :
        /\ pc[t] = "tb_register"
        /\ last_break_time = now
        /\ serial.last_break_time < now
        /\ serial.agent_level > 0

\* whole minutes in a number of seconds that is not negative
WholeMinutes(seconds) ==
    CHOOSE m \in 0..(MaxMinutes + 1) :
        /\ m * SecondsPerMinute <= seconds
        /\ seconds < (m + 1) * SecondsPerMinute

\* C18: the stress level that take_break is about to return is
\* max(0, min(100, L + m) - r) for the level L and the m whole minutes since
\* last_break_time found at the call and the drawn reduction r; a snapshot taken
\* a whole minute or more after last_break_time shows a level at least 1
\* above the one it found, or 100
AccrualBeforeReduction ==
    \A t \in Callers :
        /\ pc[t] = "tb_return"
             => agent_level =
                  Max(0, Min(MaxStress,
                             serial.agent_level
                               + WholeMinutes(loc[t].t_apply
                                                - serial.last_break_time))
                         - loc[t].reduction)
        /\ (pc[t] = "sn_collect"
              /\ now - serial.last_break_time >= SecondsPerMinute)
             => agent_level >= Min(MaxStress, serial.agent_level + 1)

WitnessAccrualThenReduction ==
    \E t \in Callers :
        /\ pc[t] = "tb_return"
        /\ serial.agent_level > 0
        /\ loc[t].t_apply - serial.last_break_time >= SecondsPerMinute
        /\ agent_level \in 1..(MaxStress - 1)

\* C20: a break response with should_delay set is returned by a caller whose
\* time.sleep(20) started DelaySeconds or more ago, a caller inside the sleep
\* leaves it only by the clock reaching its end, and a response returned
\* straight after take_break has should_delay unset
DelayRunsToCompletion ==
    [][\A t \in Callers :
        /\ (out'.kind = "break" /\ out'.thread = t)
             => IF out'.should_delay
                THEN /\ pc[t] = "respond"
                     /\ now' - loc[t].t_sleep >= DelaySeconds
                ELSE pc[t] = "tb_return" /\ ~should_delay(boss_level)
        /\ pc[t] = "delay"
             => \/ pc'[t] = "delay" /\ loc'[t] = loc[t]
                \/ /\ pc'[t] = "respond"
                   /\ now' - loc[t].t_sleep >= DelaySeconds]_vars

WitnessDelayedResponse ==
    /\ out.kind = "break"
    /\ out.should_delay
    /\ out.boss_alert_level = MaxAlert
    /\ now >= DelaySeconds

\* ------------------------------------------------------------------------
\* Start-up: the command line is parsed by parse_runtime_config, and
\* ChillController constructs the core from the RuntimeConfig it is given
\* ------------------------------------------------------------------------
\* values of --boss_alertness and --boss_alertness_cooldown that are tried;
\* before the core is constructed alertness_probability and cooldown_seconds
\* hold these
ArgProbabilities == {-1, 50, MaxDraw + 1}
ArgCooldowns == {-1, 1}

config_valid_no_lower(boss_alertness, boss_alertness_cooldown) ==
    boss_alertness <= 100 /\ ~(boss_alertness_cooldown < 0)

config_valid(boss_alertness, boss_alertness_cooldown) ==
    (0 <= boss_alertness /\ boss_alertness <= 100)
        /\ ~(boss_alertness_cooldown < 0)

InitBoot ==
    /\ now = 0
    /\ alertness_probability \in ArgProbabilities
    /\ cooldown_seconds \in ArgCooldowns
    /\ agent_level = 0
    /\ last_break_time = 0
    /\ boss_level = 0
    /\ last_cooldown_time = 0
    /\ lock = NoThread
    /\ pc = [t \in Threads |-> "unstarted"]
    /\ loc = [t \in Threads |-> NoLocals]
    /\ out = NoOut
    /\ serial = [agent_level |-> 0, last_break_time |-> 0, boss_level |-> 0,
                 last_cooldown_time |-> 0]
    /\ break_count = 0
    /\ history = [NoHistory EXCEPT !.validated = FALSE]
    /\ web = NoWeb

\* parser.error prints the message and exits the process
ParseRuntimeConfig ==
    /\ \A t \in Threads : pc[t] = "unstarted"
    /\ IF config_valid(alertness_probability, cooldown_seconds)
       THEN /\ pc' = [t \in Threads |-> "parsed"]
            /\ history' = [history EXCEPT !.validated = TRUE]
            /\ out' = NoOut
       ELSE /\ pc' = [t \in Threads |-> "exited"]
            /\ history' = history
            /\ out' = [NoOut EXCEPT !.kind = "config_error"]
    /\ UNCHANGED <<now, config, trackers, lock, loc, serial, break_count,
                   web>>

\* ChillController.__init__ and ChillState.__init__, given a RuntimeConfig
\* that parse_runtime_config returned or one that was built directly
ChillControllerInit ==
    /\ \A t \in Threads : pc[t] \in {"unstarted", "parsed"}
    /\ pc' = [t \in Threads |-> IF t = Worker THEN "w_sleep" ELSE "idle"]
    /\ loc' = [t \in Threads |->
                IF t = Worker THEN [NoLocals EXCEPT !.wake = WorkerPeriod]
                ELSE NoLocals]
    /\ out' = NoOut
    /\ UNCHANGED <<now, config, trackers, lock, serial, break_count, history, web>>

NextBoot ==
    \/ ParseRuntimeConfig
    \/ ChillControllerInit
    \/ Next

SpecBoot == InitBoot /\ [][NextBoot]_vars

\* the core has been constructed and its cooldown thread started
Running == \A t \in Threads : pc[t] \notin {"unstarted", "parsed", "exited"}

\* C19 as stated: a core that runs has alertness_probability in 0..100 and
\* cooldown_seconds of 0 or more
NoInvalidCoreRuns ==
    Running => /\ alertness_probability \in 0..100
               /\ cooldown_seconds >= 0

\* C19: a core whose configuration went through parse_runtime_config has
\* alertness_probability in 0..100 and cooldown_seconds of 0 or more; a
\* configuration error is raised only for values outside these ranges, and
\* after it no core is constructed and nothing runs
InvalidConfigRejectedByParser ==
    /\ (history.validated
          /\ \E t \in Threads : pc[t] \notin {"unstarted", "exited"})
         => /\ alertness_probability \in 0..100
            /\ cooldown_seconds >= 0
    /\ out.kind = "config_error"
         => ~(alertness_probability \in 0..100 /\ cooldown_seconds >= 0)
    /\ (\E t \in Threads : pc[t] = "exited")
         => /\ \A t \in Threads : pc[t] = "exited"
            /\ ~history.validated
            /\ lock = NoThread
            /\ Fields = serial

WitnessConfigError ==
    /\ out.kind = "config_error"
    /\ alertness_probability > 100
    /\ \A t \in Threads : pc[t] = "exited"

\* ------------------------------------------------------------------------
\* The layered core under a wall clock that can be set back: datetime.now()
\* may return any reading, earlier ones included. Every call is one complete
\* critical section.
\* ------------------------------------------------------------------------
\* cooldown_seconds that are tried, the smallest value the parser accepts
\* included
SkewCooldowns == {0, 1}

InitSkew ==
    /\ now = 0
    /\ alertness_probability \in ConfigProbabilities
    /\ cooldown_seconds \in SkewCooldowns
    /\ agent_level = 0
    /\ last_break_time = 0
    /\ boss_level = 0
    /\ last_cooldown_time = 0
    /\ lock = NoThread
    /\ pc = [t \in Threads |-> IF t = Worker THEN "w_sleep" ELSE "idle"]
    /\ loc = [t \in Threads |->
                IF t = Worker THEN [NoLocals EXCEPT !.wake = WorkerPeriod]
                ELSE NoLocals]
    /\ out = NoOut
    /\ serial = [agent_level |-> 0, last_break_time |-> 0, boss_level |-> 0,
                 last_cooldown_time |-> 0]
    /\ break_count = 0
    /\ history = NoHistory
    /\ web = NoWeb

\* the wall clock is set, forward or back
SkewClock ==
    /\ \E t \in Instants : t # now /\ now' = t
    /\ out' = NoOut
    /\ UNCHANGED <<config, trackers, lock, pc, loc, serial, break_count,
                   history, web>>

SkewTakeBreak(t) ==
    /\ pc[t] = "idle"
    /\ \E reduction \in ReductionDraws, draw \in AlertDraws :
         LET l == [NoLocals EXCEPT
                     !.t_apply = now, !.reduction = reduction,
                     !.t_reduce = now, !.t_reg = now,
                     !.hit = register_break_hit(alertness_probability, draw)]
             f == SerialTakeBreak(Fields, l)
         IN  /\ SetFields(f)
             /\ serial' = f
             /\ out' = BreakResponse(t, f.agent_level, f.boss_level,
                                     should_delay(f.boss_level))
    /\ UNCHANGED <<now, config, lock, pc, loc, break_count, history, web>>

SkewSnapshot(t) ==
    /\ pc[t] = "idle"
    /\ LET f == SerialSnapshot(Fields, [NoLocals EXCEPT !.t_apply = now])
       IN  /\ SetFields(f)
           /\ serial' = f
           /\ out' = [NoOut EXCEPT !.kind = "status", !.thread = t,
                                   !.timestamp = now,
                                   !.stress_level = f.agent_level,
                                   !.last_break_time = f.last_break_time,
                                   !.boss_alert_level = f.boss_level]
    /\ UNCHANGED <<now, config, lock, pc, loc, break_count, history, web>>

SkewCooldown ==
    /\ LET f == SerialCooldown(Fields, cooldown_seconds, now)
       IN  /\ SetFields(f)
           /\ serial' = f
    /\ out' = NoOut
    /\ UNCHANGED <<now, config, lock, pc, loc, break_count, history, web>>

NextSkew ==
    \/ SkewClock
    \/ \E t \in Callers : SkewTakeBreak(t)
    \/ \E t \in Callers : SkewSnapshot(t)
    \/ SkewCooldown

SpecSkew == InitSkew /\ [][NextSkew]_vars

\* C21: at a clock reading equal to or earlier than last_break_time,
\* apply_elapsed_time leaves the stress level as it is (and at no reading
\* lowers it); at a reading earlier than last_cooldown_time, cooldown_step
\* does what it does at zero elapsed time
ClockSkewCountsAsZero ==
    /\ apply_elapsed_time(agent_level, last_break_time, now).level
         >= agent_level
    /\ now <= last_break_time
         => apply_elapsed_time(agent_level, last_break_time, now).level
              = agent_level
    /\ now < last_cooldown_time
         => cooldown_step(boss_level, last_cooldown_time, cooldown_seconds,
                          now).level
              = cooldown_step(boss_level, last_cooldown_time,
                              cooldown_seconds, last_cooldown_time).level

\* C22: no step changes alertness_probability or cooldown_seconds, and a
\* snapshot reports these two values, both levels, last_break_time and
\* last_cooldown_time as they are
ConfigFixedAndReported ==
    /\ [](out.kind = "status"
            => /\ out.boss_alertness = alertness_probability
               /\ out.boss_alertness_cooldown = cooldown_seconds
               /\ out.stress_level = agent_level
               /\ out.boss_alert_level = boss_level
               /\ out.last_break_time = last_break_time
               /\ out.last_boss_cooldown_time = last_cooldown_time)
    /\ [][alertness_probability' = alertness_probability
            /\ cooldown_seconds' = cooldown_seconds]_vars

WitnessSnapshotReportsConfig ==
    /\ out.kind = "status"
    /\ out.boss_alertness = 50
    /\ out.boss_alertness_cooldown > 50
    /\ out.boss_alert_level > 0
    /\ out.stress_level > 0
    /\ out.last_boss_cooldown_time > 0

\* ------------------------------------------------------------------------
\* The dashboard (webapp/app.py) and its MCP client (webapp/mcp_client.py)
\* ------------------------------------------------------------------------
EventLogSize == 30

\* the tools main.py registers, the server MCPClient launches
MainTools == {"take_a_break", "watch_netflix", "show_meme", "bathroom_break",
              "coffee_mission", "urgent_call", "deep_thinking",
              "email_organizing", "check_stress_status", "chimaek",
              "leave_work", "company_dinner"}

\* the names in ACTION_TOOLS
ActionTools == {"take_a_break", "watch_netflix", "show_meme",
                "bathroom_break", "coffee_mission", "urgent_call",
                "deep_thinking", "email_organizing", "chimaek", "leave_work",
                "company_dinner"}

SnapshotTool == "get_state_snapshot"
CoffeeTool == "coffee_mission"

\* tool names that action requests are made for
RequestedTools == {"take_a_break", CoffeeTool, "check_stress_status",
                   "unknown_tool"}

\* MCPClient against main.py: the call times out, the process is gone, or
\* the server answers, with the tool's text or, for a name it has not
\* registered, with an error result that call_tool_text or json.loads
\* rejects (MCPError)
MCPClientOutcomes(tool) ==
    {"timeout", "process"}
        \cup (IF tool \in MainTools THEN {"ok"} ELSE {"error"})

\* FakeMCPClient of the tests: a simulated timeout or an answer
FakeClientOutcomes(tool) == {"timeout", "ok"}

\* MCPClient against the server that CHILL_MCP_COMMAND names: besides the
\* above, a tool's text may hold no line that is not blank ("empty"), which
\* parse_tool_response rejects and json.loads of get_state_snapshot turns
\* into an MCPError
CustomClientOutcomes(tool) ==
    {"timeout", "process", "ok", "error"}
        \cup (IF tool = SnapshotTool THEN {} ELSE {"empty"})

ClientOutcomes(client, tool) ==
    CASE client = "mcp" -> MCPClientOutcomes(tool)
      [] client = "custom" -> CustomClientOutcomes(tool)
      [] OTHER -> FakeClientOutcomes(tool)

tool_lookup_get_registered(tool_name) == tool_name \in MainTools

tool_lookup_get(tool_name) == tool_name \in ActionTools

\* deque(maxlen=30).appendleft
deque_appendleft_unbounded(log, entry) == <<entry>> \o log

deque_appendleft(log, entry) ==
    LET l == <<entry>> \o log
    IN  IF Len(l) > EventLogSize THEN SubSeq(l, 1, EventLogSize) ELSE l

\* the answer of api_state for the outcome of its get_state_snapshot call
api_state_answer_swapped(outcome) ==
    CASE outcome = "ok" -> [code |-> 200, status |-> "ok"]
      [] outcome = "timeout" -> [code |-> 200, status |-> "offline"]
      [] outcome = "process" -> [code |-> 200, status |-> "degraded"]
      [] OTHER -> [code |-> 502, status |-> "none"]

api_state_answer(outcome) ==
    CASE outcome = "ok" -> [code |-> 200, status |-> "ok"]
      [] outcome = "timeout" -> [code |-> 200, status |-> "degraded"]
      [] outcome = "process" -> [code |-> 200, status |-> "offline"]
      [] OTHER -> [code |-> 502, status |-> "none"]

\* the answer of api_trigger_action for a call that did not succeed
action_failure_answer_ok(outcome) ==
    CASE outcome = "timeout" -> [code |-> 200, status |-> "ok"]
      [] outcome = "process" -> [code |-> 503, status |-> "offline"]
      [] outcome = "empty" -> [code |-> 500, status |-> "none"]
      [] OTHER -> [code |-> 502, status |-> "none"]

action_failure_answer(outcome) ==
    CASE outcome = "timeout" -> [code |-> 504, status |-> "timeout"]
      [] outcome = "process" -> [code |-> 503, status |-> "offline"]
      [] outcome = "empty" -> [code |-> 500, status |-> "none"]
      [] OTHER -> [code |-> 502, status |-> "none"]

core == <<now, alertness_probability, cooldown_seconds, agent_level,
          last_break_time, boss_level, last_cooldown_time, lock, pc, loc,
          out, serial, break_count, history>>

InitDash ==
    /\ now = 0
    /\ alertness_probability = 50
    /\ cooldown_seconds = 300
    /\ agent_level = 0
    /\ last_break_time = 0
    /\ boss_level = 0
    /\ last_cooldown_time = 0
    /\ lock = NoThread
    /\ pc = [t \in Threads |-> IF t = Worker THEN "w_sleep" ELSE "idle"]
    /\ loc = [t \in Threads |->
                IF t = Worker THEN [NoLocals EXCEPT !.wake = WorkerPeriod]
                ELSE NoLocals]
    /\ out = NoOut
    /\ serial = [agent_level |-> 0, last_break_time |-> 0, boss_level |-> 0,
                 last_cooldown_time |-> 0]
    /\ break_count = 0
    /\ history = NoHistory
    /\ \E client \in {"fake", "mcp", "custom"} :
         web = [NoWeb EXCEPT !.client = client]

Answer(h, request, tool, answer) ==
    [handler |-> h, request |-> request, tool |-> tool,
     code |-> answer.code, status |-> answer.status]

\* GET /api/state
ApiState(h) ==
    /\ web.req[h].pc = "idle"
    /\ \E outcome \in ClientOutcomes(web.client, SnapshotTool) :
         web' = [web EXCEPT
                   !.sent = <<[tool |-> SnapshotTool, outcome |-> outcome]>>,
                   !.response = Answer(h, "state", "none",
                                       api_state_answer(outcome))]
    /\ UNCHANGED core

\* GET /api/events
ApiEvents(h) ==
    /\ web.req[h].pc = "idle"
    /\ web' = [web EXCEPT
                 !.sent = <<>>,
                 !.response = Answer(h, "events", "none",
                                     [code |-> 200, status |-> "none"])]
    /\ UNCHANGED core

InFlight == Cardinality({h \in Handlers : web.req[h].pc # "idle"})

\* the number of action requests that are followed: enough to fill the event
\* log with the client of the tests, a few with a server of one's own
RecordedCap ==
    IF web.client = "custom" THEN MaxCustomRecorded ELSE MaxRecorded

\* POST /api/actions/{tool_name} up to the first await
ApiTriggerAction(h) ==
    /\ web.req[h].pc = "idle"
    /\ web.recorded + InFlight < RecordedCap
    /\ \E tool_name \in RequestedTools :
         /\ tool_name = CoffeeTool => web.varied < MaxVaried
         /\ IF tool_lookup_get(tool_name)
            THEN web' = [web EXCEPT
                           !.req[h] = [pc |-> "act_call", tool |-> tool_name],
                           !.varied = IF tool_name = CoffeeTool
                                      THEN @ + 1 ELSE @,
                           !.sent = <<>>,
                           !.response = NoResponse]
            ELSE web' = [web EXCEPT
                           !.sent = <<>>,
                           !.response = Answer(h, "action", tool_name,
                                               [code |-> 404,
                                                status |-> "none"])]
    /\ UNCHANGED core

\* mcp_client.call_tool_text(tool_name) and parse_tool_response
ActionCallTool(h) ==
    /\ web.req[h].pc = "act_call"
    /\ \E outcome \in ClientOutcomes(web.client, web.req[h].tool) :
         web' = [web EXCEPT
                   !.sent = <<[tool |-> web.req[h].tool,
                               outcome |-> outcome]>>,
                   !.req[h] = IF outcome = "ok"
                              THEN [@ EXCEPT !.pc = "act_snapshot"]
                              ELSE NoRequest,
                   !.response = IF outcome = "ok" THEN NoResponse
                                ELSE Answer(h, "action", web.req[h].tool,
                                            action_failure_answer(outcome))]
    /\ UNCHANGED core

\* get_state_snapshot(mcp_client) inside api_trigger_action
ActionSnapshot(h) ==
    /\ web.req[h].pc = "act_snapshot"
    /\ \E outcome \in ClientOutcomes(web.client, SnapshotTool) :
         web' = [web EXCEPT
                   !.sent = <<[tool |-> SnapshotTool, outcome |-> outcome]>>,
                   !.req[h] = IF outcome = "ok"
                              THEN [@ EXCEPT !.pc = "act_record"]
                              ELSE NoRequest,
                   !.response = IF outcome = "ok" THEN NoResponse
                                ELSE Answer(h, "action", web.req[h].tool,
                                            action_failure_answer(outcome))]
    /\ UNCHANGED core

\* record_event and the answer of api_trigger_action
ActionRecord(h) ==
    /\ web.req[h].pc = "act_record"
    /\ web' = [web EXCEPT
                 !.event_log =
                     deque_appendleft(@, [tool |-> web.req[h].tool,
                                          n |-> web.recorded + 1]),
                 !.recorded = @ + 1,
                 !.req[h] = NoRequest,
                 !.sent = <<>>,
                 !.response = Answer(h, "action", web.req[h].tool,
                                     [code |-> 200, status |-> "ok"])]
    /\ UNCHANGED core

NextDash ==
    \/ \E h \in Handlers : ApiState(h)
    \/ \E h \in Handlers : ApiEvents(h)
    \/ \E h \in Handlers : ApiTriggerAction(h)
    \/ \E h \in Handlers : ActionCallTool(h)
    \/ \E h \in Handlers : ActionSnapshot(h)
    \/ \E h \in Handlers : ActionRecord(h)

SpecDash == InitDash /\ [][NextDash]_vars

\* C23: the server offers a get_state_snapshot tool: a get_state_snapshot
\* call that reaches the running server (it neither times out nor finds
\* the process gone) is answered with the snapshot payload.
SnapshotToolOffered ==
    \A i \in 1..Len(web.sent) :
        (/\ web.client = "mcp"
         /\ web.sent[i].tool = SnapshotTool
         /\ web.sent[i].outcome \notin {"timeout", "process"})
            => web.sent[i].outcome = "ok"

\* C24: an action request for a tool that is not in the catalog is answered
\* 404, sends nothing to the MCP server and adds no event; only catalog
\* tools are ever sent on behalf of an action request.
UnknownToolRejected ==
    /\ [](\A i \in 1..Len(web.sent) :
            web.sent[i].tool \in ActionTools \cup {SnapshotTool})
    /\ [][\A h \in Handlers :
            /\ (web.req[h].pc = "idle" /\ web'.req[h].pc # "idle")
                 => web'.req[h].tool \in ActionTools
            /\ (/\ web.req[h].pc = "idle"
                /\ web'.response.handler = h
                /\ web'.response.request = "action")
                 => /\ web'.response.tool \notin ActionTools
                    /\ web'.response.code = 404
                    /\ web'.sent = <<>>
                    /\ web'.event_log = web.event_log
                    /\ web'.req[h].pc = "idle"]_vars

WitnessUnknownTool404 ==
    /\ web.response.code = 404
    /\ web.response.tool = "check_stress_status"
    /\ Len(web.event_log) > 0

\* C25 (as stated): whenever fetching the snapshot fails the state endpoint
\* answers with a status value instead of an error, "degraded" for a
\* timeout and "offline" for a missing process, and "ok" only when exactly
\* one snapshot call succeeded.
StateEndpointNeverErrors ==
    web.response.request = "state"
        => /\ Len(web.sent) = 1
           /\ web.sent[1].tool = SnapshotTool
           /\ web.response.code = 200
           /\ web.response.status \in {"ok", "degraded", "offline"}
           /\ web.response.status = "ok" <=> web.sent[1].outcome = "ok"
           /\ web.response.status = "degraded"
                <=> web.sent[1].outcome = "timeout"
           /\ web.response.status = "offline"
                <=> web.sent[1].outcome = "process"

\* C25 (amended): the state endpoint makes exactly one snapshot call and
\* answers "ok" exactly when it succeeded, "degraded" exactly when it timed
\* out, "offline" exactly when the process was not running, and with the
\* error 502 exactly when the call failed in any other way.
StateEndpointAnswers ==
    web.response.request = "state"
        => /\ Len(web.sent) = 1
           /\ web.sent[1].tool = SnapshotTool
           /\ web.response.status = "ok" <=> web.sent[1].outcome = "ok"
           /\ web.response.status = "degraded"
                <=> web.sent[1].outcome = "timeout"
           /\ web.response.status = "offline"
                <=> web.sent[1].outcome = "process"
           /\ web.response.code = 502
                <=> web.sent[1].outcome
                      \notin {"ok", "timeout", "process"}
           /\ web.response.code \in {200, 502}
           /\ web.response.code = 200
                <=> web.response.status \in {"ok", "degraded", "offline"}

WitnessStateDegraded ==
    /\ web.response.request = "state"
    /\ web.response.status = "degraded"
    /\ web.sent = <<[tool |-> SnapshotTool, outcome |-> "timeout"]>>

\* C26: an action that completes with status ok puts exactly one entry for
\* its tool at the head of the event log and shifts the others down, the
\* log changes in no other step, it lists its entries newest first and never
\* holds more than 30 of them, the oldest being dropped.
EventLogNewestFirst ==
    /\ [](/\ Len(web.event_log) <= EventLogSize
          /\ \A i, j \in 1..Len(web.event_log) :
               i < j => web.event_log[i].n > web.event_log[j].n)
    /\ [][/\ \A h \in Handlers :
               (/\ web'.response.handler = h
                /\ web'.response.request = "action"
                /\ web'.response.status = "ok")
                 => /\ Len(web'.event_log)
                         = Min(Len(web.event_log) + 1, EventLogSize)
                    /\ web'.event_log[1].tool = web.req[h].tool
                    /\ web'.response.tool = web.req[h].tool
                    /\ \A i \in 2..Len(web'.event_log) :
                         web'.event_log[i] = web.event_log[i - 1]
          /\ web'.event_log # web.event_log
               => /\ web'.response.request = "action"
                  /\ web'.response.status = "ok"]_vars

WitnessOldestEventDropped ==
    /\ web.response.status = "ok"
    /\ web.response.request = "action"
    /\ Len(web.event_log) = EventLogSize
    /\ web.recorded > EventLogSize
    /\ web.event_log[1].tool = CoffeeTool

\* ------------------------------------------------------------------------
\* The cooldown loop with no break taken: the server starts at any alert
\* level, the callers only ask for the status, and the clock moves on while
\* the loop sleeps
\* ------------------------------------------------------------------------
\* the latest clock reading by which every level has cooled down to 0: a
\* level lasts at most cooldown_seconds + MaxJump - 1 seconds
TimeHorizon == MaxAlert * (MaxCooldown + MaxJump - 1)

InitCool ==
    /\ now = 0
    /\ alertness_probability = 50
    /\ cooldown_seconds \in 0..MaxCooldown
    /\ agent_level = 0
    /\ last_break_time = 0
    /\ boss_level \in 1..MaxAlert
    /\ last_cooldown_time = 0
    /\ lock = NoThread
    /\ pc = [t \in Threads |-> IF t = Worker THEN "w_sleep" ELSE "idle"]
    /\ loc = [t \in Threads |->
                IF t = Worker THEN [NoLocals EXCEPT !.wake = WorkerPeriod]
                ELSE NoLocals]
    /\ out = NoOut
    /\ serial = [agent_level |-> 0, last_break_time |-> 0,
                 boss_level |-> boss_level, last_cooldown_time |-> 0]
    /\ break_count = 0
    /\ history = NoHistory
    /\ web = NoWeb

\* the clock moves on by 1..MaxJump seconds while the loop is in
\* time.sleep(1), which ends the sleep
CoolTick ==
    /\ pc[Worker] = "w_sleep"
    /\ \E d \in 1..MaxJump :
         /\ now + d <= TimeHorizon
         /\ now' = now + d
    /\ pc' = [pc EXCEPT ![Worker] = "w_lock"]
    /\ loc' = [loc EXCEPT ![Worker].wake = 0]
    /\ out' = NoOut
    /\ UNCHANGED <<config, trackers, lock, serial, break_count, history, web>>

NextCool ==
    \/ CoolTick
    \/ \E t \in Callers : SnapshotAcquire(t)
    \/ \E t \in Callers : SnapshotApply(t)
    \/ \E t \in Callers : SnapshotCollect(t)
    \/ WorkerAcquire
    \/ WorkerStep

\* time advances, every thread that can run does, and the loop is not
\* starved of the lock
SpecCool ==
    /\ InitCool
    /\ [][NextCool]_vars
    /\ WF_vars(CoolTick)
    /\ \A t \in Callers : WF_vars(SnapshotApply(t) \/ SnapshotCollect(t))
    /\ SF_vars(WorkerAcquire)
    /\ WF_vars(WorkerStep)

\* C27: with no further break the alert level eventually reaches 0 and
\* stays there, from every starting level 1..5 and for every
\* cooldown_seconds in 0..MaxCooldown.
CooldownReachesZero == <>[](boss_level = 0)

WitnessCooledDownFromMax ==
    /\ boss_level = 0
    /\ out.kind = "cooldown"
    /\ cooldown_seconds = MaxCooldown
    /\ last_cooldown_time = TimeHorizon

\* ------------------------------------------------------------------------
\* Progress of the layered server: calls that have been made and are
\* waiting for the lock, and a clock that never stops
\* ------------------------------------------------------------------------
\* the clock readings that are told apart: the last one stands for every
\* later one
LastInstant == DelaySeconds + MaxOffset

LiveInstants == {0, WorkerPeriod, DelaySeconds, LastInstant}

InitLive ==
    /\ now = 0
    /\ alertness_probability = 50
    /\ cooldown_seconds = 1
    /\ agent_level = 0
    /\ last_break_time = 0
    /\ boss_level = 0
    /\ last_cooldown_time = 0
    /\ lock = NoThread
    /\ pc = [t \in Threads |-> IF t = Worker THEN "w_sleep" ELSE "idle"]
    /\ loc = [t \in Threads |->
                IF t = Worker THEN [NoLocals EXCEPT !.wake = WorkerPeriod]
                ELSE NoLocals]
    /\ out = NoOut
    /\ serial = [agent_level |-> 0, last_break_time |-> 0, boss_level |-> 0,
                 last_cooldown_time |-> 0]
    /\ break_count = 0
    /\ history = NoHistory
    /\ web = NoWeb

\* the clock moves on, between critical sections, and ends the sleeps that
\* are over; time that passes at or after LastInstant ends every sleep
LiveAdvance ==
    /\ lock = NoThread
    /\ \E t \in LiveInstants :
         /\ t > now \/ t = LastInstant
         /\ now' = t
         /\ pc' = [th \in Threads |->
                     IF Sleeping(th) /\ (t >= loc[th].wake \/ t = LastInstant)
                     THEN AfterSleep(th) ELSE pc[th]]
         /\ loc' = [th \in Threads |->
                     IF Sleeping(th) /\ (t >= loc[th].wake \/ t = LastInstant)
                     THEN [loc[th] EXCEPT !.wake = 0] ELSE loc[th]]
    /\ out' = NoOut
    /\ UNCHANGED <<config, trackers, lock, serial, break_count, history, web>>

\* a tool calls take_break, which reaches `with self.lock`
LiveCallTakeBreak(t) ==
    /\ pc[t] = "idle"
    /\ pc' = [pc EXCEPT ![t] = "tb_wait"]
    /\ out' = NoOut
    /\ UNCHANGED <<now, config, trackers, lock, loc, serial, break_count,
                   history, web>>

LiveTakeBreakAcquire(t) ==
    /\ pc[t] = "tb_wait"
    /\ lock_acquire(t)
    /\ pc' = [pc EXCEPT ![t] = "tb_apply"]
    /\ out' = NoOut
    /\ UNCHANGED <<now, config, trackers, loc, serial, break_count, history, web>>

\* a tool calls snapshot, which reaches `with self.lock`
LiveCallSnapshot(t) ==
    /\ pc[t] = "idle"
    /\ pc' = [pc EXCEPT ![t] = "sn_wait"]
    /\ out' = NoOut
    /\ UNCHANGED <<now, config, trackers, lock, loc, serial, break_count,
                   history, web>>

LiveSnapshotAcquire(t) ==
    /\ pc[t] = "sn_wait"
    /\ lock_acquire(t)
    /\ pc' = [pc EXCEPT ![t] = "sn_apply"]
    /\ out' = NoOut
    /\ UNCHANGED <<now, config, trackers, loc, serial, break_count, history, web>>

\* the steps a caller takes on its own once it has the lock or has slept
CallerRuns(t) ==
    \/ TakeBreakApply(t)
    \/ TakeBreakReduce(t)
    \/ TakeBreakRegister(t)
    \/ TakeBreakRaise(t)
    \/ TakeBreakReturn(t)
    \/ FormatEndDelay(t)
    \/ SnapshotApply(t)
    \/ SnapshotCollect(t)

NextLive ==
    \/ LiveAdvance
    \/ \E t \in Callers : LiveCallTakeBreak(t)
    \/ \E t \in Callers : LiveTakeBreakAcquire(t)
    \/ \E t \in Callers : LiveCallSnapshot(t)
    \/ \E t \in Callers : LiveSnapshotAcquire(t)
    \/ \E t \in Callers : TakeBreakApply(t)
    \/ \E t \in Callers : TakeBreakReduce(t)
    \/ \E t \in Callers : TakeBreakRegister(t)
    \/ \E t \in Callers : TakeBreakRaise(t)
    \/ \E t \in Callers : TakeBreakReturn(t)
    \/ \E t \in Callers : FormatEndDelay(t)
    \/ \E t \in Callers : SnapshotApply(t)
    \/ \E t \in Callers : SnapshotCollect(t)
    \/ WorkerAcquire
    \/ WorkerStep

\* time passes, a thread that can run does, and no thread is starved of the
\* lock
SpecLive ==
    /\ InitLive
    /\ [][NextLive]_vars
    /\ SF_vars(LiveAdvance)
    /\ \A t \in Callers : WF_vars(CallerRuns(t))
    /\ \A t \in Callers : SF_vars(LiveTakeBreakAcquire(t))
    /\ \A t \in Callers : SF_vars(LiveSnapshotAcquire(t))
    /\ SF_vars(WorkerAcquire)
    /\ WF_vars(WorkerStep)

\* C28: the lock is held only inside a critical section, never by a thread
\* that waits, sleeps or has returned; every take_break and snapshot call
\* that has been made returns; and the cooldown loop runs again and again.
DeadlockFree ==
    /\ [](\A t \in Threads : lock = t => pc[t] \in CriticalPCs)
    /\ \A t \in Callers : (pc[t] \in {"tb_wait", "sn_wait"}) ~> (pc[t] = "idle")
    /\ []<>(pc[Worker] = "w_step")
    /\ []<>(pc[Worker] = "w_sleep")

WitnessWaitingForLock ==
    /\ pc["c1"] = "delay"
    /\ pc["c2"] = "tb_wait"
    /\ lock = Worker

\* ------------------------------------------------------------------------
\* main.py's ChillState and the layered ChillState side by side: the tracker
\* variables are main.py's fields, serial holds the layered core's, and both
\* get the same calls, ticks, clock readings and draws
\* ------------------------------------------------------------------------
\* main.py's take_break on fields f
main_take_break(f, boss_alertness, stress_reduction, draw, t) ==
    LET stressed == update_stress(f.agent_level, f.last_break_time, t)
        r == main_boss_check(f.boss_level, f.last_cooldown_time,
                             boss_alertness, draw, t)
    IN  [agent_level |-> Max(0, stressed - stress_reduction),
         last_break_time |-> t,
         boss_level |-> r.level,
         last_cooldown_time |-> r.last_boss_cooldown_time]

EquivTakeBreak(t) ==
    /\ pc[t] = "idle"
    /\ \E reduction \in ReductionDraws, draw \in AlertDraws :
         LET l == [NoLocals EXCEPT
                     !.t_apply = now, !.reduction = reduction,
                     !.t_reduce = now, !.t_reg = now,
                     !.hit = register_break_hit(alertness_probability, draw)]
             f == main_take_break(Fields, alertness_probability, reduction,
                                  draw, now)
         IN  /\ SetFields(f)
             /\ serial' = SerialTakeBreak(serial, l)
             /\ out' = BreakResponse(t, f.agent_level, f.boss_level,
                                     f.boss_level = MaxAlert)
    /\ UNCHANGED <<now, config, lock, pc, loc, break_count, history, web>>

\* check_stress_status of main.py and snapshot of the layered core
EquivStatus(t) ==
    /\ pc[t] = "idle"
    /\ agent_level' = update_stress(agent_level, last_break_time, now)
    /\ serial' = SerialSnapshot(serial, [NoLocals EXCEPT !.t_apply = now])
    /\ out' = [NoOut EXCEPT !.kind = "status", !.thread = t,
                            !.stress_level = agent_level',
                            !.boss_alert_level = boss_level]
    /\ UNCHANGED <<now, config, last_break_time, boss_level,
                   last_cooldown_time, lock, pc, loc, break_count, history,
                   web>>

EquivCooldown ==
    /\ pc[Worker] = "w_lock"
    /\ LET r == main_cooldown(boss_level, last_cooldown_time,
                              cooldown_seconds, now)
       IN  /\ boss_level' = r.level
           /\ last_cooldown_time' = r.last_boss_cooldown_time
    /\ serial' = SerialCooldown(serial, cooldown_seconds, now)
    /\ loc' = [loc EXCEPT ![Worker].wake = now + WorkerPeriod]
    /\ pc' = [pc EXCEPT ![Worker] = "w_sleep"]
    /\ out' = NoOut
    /\ UNCHANGED <<now, config, agent_level, last_break_time, lock,
                   break_count, history, web>>

NextEquiv ==
    \/ Advance
    \/ \E t \in Callers : EquivTakeBreak(t)
    \/ \E t \in Callers : EquivStatus(t)
    \/ EquivCooldown

SpecEquiv == Init /\ [][NextEquiv]_vars

\* C29: given the same configuration, calls, ticks, clock readings and
\* draws, main.py's ChillState and the layered ChillState have the same
\* levels, last_break_time and last change time after every step and return
\* the same (stress, alert, should_delay) and the same status.
CoresEquivalent ==
    /\ Fields = serial
    /\ out.kind = "break"
         => /\ out.stress_level = serial.agent_level
            /\ out.boss_alert_level = serial.boss_level
            /\ out.should_delay = should_delay(serial.boss_level)
    /\ out.kind = "status"
         => /\ out.stress_level = serial.agent_level
            /\ out.boss_alert_level = serial.boss_level

\* C30: the draw of a take_break is one of 1..100 and, for every
\* alertness_probability in 1..100, it is a hit, which raises an alert level
\* below 5, exactly when it is less than or equal to alertness_probability.
DrawAtMostProbabilityHits ==
    out.kind = "draw"
        => /\ out.draw \in MinDraw..MaxDraw
           /\ alertness_probability \in MinDraw..MaxDraw
                => (out.hit <=> out.draw <= alertness_probability)

\* ------------------------------------------------------------------------
\* Breaks with small and large reductions, on a server whose boss never
\* notices (alertness_probability 0)
\* ------------------------------------------------------------------------
InitStress ==
    /\ now = 0
    /\ alertness_probability = 0
    /\ cooldown_seconds = 1
    /\ agent_level = 0
    /\ last_break_time = 0
    /\ boss_level = 0
    /\ last_cooldown_time = 0
    /\ lock = NoThread
    /\ pc = [t \in Threads |-> IF t = Worker THEN "w_sleep" ELSE "idle"]
    /\ loc = [t \in Threads |->
                IF t = Worker THEN [NoLocals EXCEPT !.wake = WorkerPeriod]
                ELSE NoLocals]
    /\ out = NoOut
    /\ serial = [agent_level |-> 0, last_break_time |-> 0, boss_level |-> 0,
                 last_cooldown_time |-> 0]
    /\ break_count = 0
    /\ history = NoHistory
    /\ web = NoWeb

\* reductions drawn: the least, its successor, the middle and the greatest
StressReductions == {MinDraw, MinDraw + 1, 50, MaxDraw}

\* one complete take_break; register_break returns before its draw
StressTakeBreak(t) ==
    /\ pc[t] = "idle"
    /\ \E reduction \in StressReductions, draw \in {MaxDraw} :
         LET l == [NoLocals EXCEPT
                     !.t_apply = now, !.reduction = reduction,
                     !.t_reduce = now, !.t_reg = now,
                     !.hit = register_break_hit(alertness_probability, draw)]
             f == SerialTakeBreak(Fields, l)
         IN  /\ SetFields(f)
             /\ serial' = SerialTakeBreak(serial, l)
             /\ out' = [BreakResponse(t, f.agent_level, f.boss_level,
                                      should_delay(f.boss_level))
                          EXCEPT !.reduction = reduction]
    /\ UNCHANGED <<now, config, lock, pc, loc, break_count, history, web>>

NextStress ==
    \/ Advance
    \/ \E t \in Callers : StressTakeBreak(t)
    \/ \E t \in Callers : TwinSnapshot(t)
    \/ TwinCooldown

SpecStress == InitStress /\ [][NextStress]_vars

\* C31: a take_break that finds level L after accrual and draws the
\* reduction r leaves the level max(0, L - r) with r in 1..100, whatever L
\* is and whatever earlier breaks drew: never above L, and below L when
\* L > 0.
ReductionNeverBanked ==
    [][out'.kind = "break"
         => LET L == Min(MaxStress,
                         agent_level + WholeMinutes(now - last_break_time))
                r == out'.reduction
            IN  /\ r \in MinDraw..MaxDraw
                /\ agent_level' = Max(0, L - r)
                /\ out'.stress_level = agent_level'
                /\ agent_level' <= L
                /\ L > 0 => agent_level' < L]_vars

WitnessSecondBreakLowersAgain ==
    /\ out.kind = "break"
    /\ out.reduction = MinDraw
    /\ out.stress_level = MaxStress - MinDraw - 1
    /\ serial.last_break_time > DelaySeconds

\* C32: a core that was constructed directly, with a configuration that no
\* parser validated (alertness_probability below 0 or above 100, a negative
\* cooldown_seconds), keeps its stress level in 0..100 and its alert level
\* in 0..5, in its fields and in what it returns.
LevelsInRangeUnvalidated ==
    (Running /\ ~history.validated)
        => /\ agent_level \in 0..MaxStress
           /\ boss_level \in 0..MaxAlert
           /\ out.kind \in {"break", "status"}
                => /\ out.stress_level \in 0..MaxStress
                   /\ out.boss_alert_level \in 0..MaxAlert

WitnessInvalidConfigAtBounds ==
    /\ Running
    /\ ~history.validated
    /\ alertness_probability > MaxDraw
    /\ cooldown_seconds < 0
    /\ agent_level = MaxStress
    /\ boss_level = MaxAlert

\* C33: a break tool reports the levels its own take_break returned: a
\* caller is held back by the delay only with alert level 5 in hand, what it
\* holds does not change while it sleeps, and its response carries exactly
\* these values whatever the cooldown loop and the other callers have done
\* to the levels meanwhile; a response is marked delayed exactly when it
\* reports level 5.
BreakReportsOwnTakeBreak ==
    /\ [](\A t \in Callers :
            pc[t] \in {"delay", "respond"}
                => loc[t].boss = MaxAlert /\ loc[t].should_delay)
    /\ [](out.kind = "break"
            => (out.should_delay <=> out.boss_alert_level = MaxAlert))
    /\ [][\A t \in Callers :
            /\ (pc[t] = "tb_return" /\ pc'[t] = "delay")
                 => /\ loc'[t].stress = agent_level
                    /\ loc'[t].boss = boss_level
            /\ (pc[t] = "tb_return" /\ pc'[t] = "idle")
                 => /\ out'.kind = "break" /\ out'.thread = t
                    /\ out'.stress_level = agent_level
                    /\ out'.boss_alert_level = boss_level
            /\ (pc[t] \in {"delay", "respond"}
                  /\ pc'[t] \in {"delay", "respond"})
                 => /\ loc'[t].stress = loc[t].stress
                    /\ loc'[t].boss = loc[t].boss
            /\ (pc[t] = "respond" /\ pc'[t] = "idle")
                 => /\ out'.kind = "break" /\ out'.thread = t
                    /\ out'.stress_level = loc[t].stress
                    /\ out'.boss_alert_level = loc[t].boss]_vars

WitnessDelayedResponseAfterCooldown ==
    /\ out.kind = "break"
    /\ out.should_delay
    /\ out.boss_alert_level = MaxAlert
    /\ boss_level < MaxAlert
    /\ out.stress_level # agent_level

\* ------------------------------------------------------------------------
\* ChillState.perform_break
\* ------------------------------------------------------------------------
\* lengths of the options sequence that callers pass
PerformOptionCounts == {0, 1, 2}

options_empty_never(options) == FALSE

\* `not options`
options_empty(options) == options = 0

delay_applied_ignoring_flag(should_delay_now, apply_delay) == should_delay_now

delay_applied(should_delay_now, apply_delay) == should_delay_now /\ apply_delay

InitPerform ==
    /\ now = 0
    /\ alertness_probability = MaxDraw
    /\ cooldown_seconds = 1
    /\ agent_level = 0
    /\ last_break_time = 0
    /\ boss_level = 0
    /\ last_cooldown_time = 0
    /\ lock = NoThread
    /\ pc = [t \in Threads |-> IF t = Worker THEN "w_sleep" ELSE "idle"]
    /\ loc = [t \in Threads |->
                IF t = Worker THEN [NoLocals EXCEPT !.wake = WorkerPeriod]
                ELSE NoLocals]
    /\ out = NoOut
    /\ serial = [agent_level |-> 0, last_break_time |-> 0, boss_level |-> 0,
                 last_cooldown_time |-> 0]
    /\ break_count = 0
    /\ history = NoHistory
    /\ web = NoWeb

\* perform_break up to `with self.lock` in take_break
PerformBreakCall(t) ==
    /\ pc[t] = "idle"
    /\ \E options \in PerformOptionCounts, apply_delay \in BOOLEAN :
         IF options_empty(options)
         THEN /\ out' = [NoOut EXCEPT !.kind = "value_error", !.thread = t,
                                      !.apply_delay = apply_delay]
              /\ UNCHANGED <<lock, pc, loc>>
         ELSE /\ lock_acquire(t)
              /\ pc' = [pc EXCEPT ![t] = "tb_apply"]
              /\ loc' = [loc EXCEPT ![t].performing = TRUE,
                                    ![t].options = options,
                                    ![t].apply_delay = apply_delay]
              /\ out' = NoOut
    /\ UNCHANGED <<now, config, trackers, serial, break_count, history, web>>

BreakOutcome(t, stress, boss, delay, apply_delay, applied) ==
    [NoOut EXCEPT !.kind = "outcome", !.thread = t, !.stress_level = stress,
                  !.boss_alert_level = boss, !.should_delay = delay,
                  !.apply_delay = apply_delay, !.delay_applied = applied]

\* the end of take_break and, in perform_break, either the BreakOutcome or
\* the start of the delay
PerformBreakReturn(t) ==
    /\ pc[t] = "tb_return"
    /\ loc[t].performing
    /\ lock' = lock_after_take_break(t, should_delay(boss_level))
    /\ serial' = SerialTakeBreak(serial, loc[t])
    /\ break_count' = IF Burst THEN Min(MaxBreaks, break_count + 1)
                    ELSE break_count
    /\ IF delay_applied(should_delay(boss_level), loc[t].apply_delay)
       THEN /\ loc' = [loc EXCEPT ![t] =
                        [NoLocals EXCEPT !.stress = agent_level,
                                         !.boss = boss_level,
                                         !.should_delay = TRUE,
                                         !.performing = TRUE,
                                         !.options = loc[t].options,
                                         !.apply_delay = loc[t].apply_delay,
                                         !.t_sleep = now,
                                         !.wake = mandated_delay_end(now)]]
            /\ pc' = [pc EXCEPT ![t] = "delay"]
            /\ out' = NoOut
       ELSE /\ loc' = [loc EXCEPT ![t] = NoLocals]
            /\ pc' = [pc EXCEPT ![t] = "idle"]
            /\ out' = BreakOutcome(t, agent_level, boss_level,
                                   should_delay(boss_level),
                                   loc[t].apply_delay, FALSE)
    /\ UNCHANGED <<now, config, trackers, history, web>>

\* perform_break after time.sleep(20)
PerformBreakEndDelay(t) ==
    /\ pc[t] = "respond"
    /\ loc[t].performing
    /\ out' = BreakOutcome(t, loc[t].stress, loc[t].boss, loc[t].should_delay,
                           loc[t].apply_delay, TRUE)
    /\ loc' = [loc EXCEPT ![t] = NoLocals]
    /\ pc' = [pc EXCEPT ![t] = "idle"]
    /\ UNCHANGED <<now, config, trackers, lock, serial, break_count, history, web>>

NextPerform ==
    \/ Advance
    \/ \E t \in Callers : PerformBreakCall(t)
    \/ \E t \in Callers : TakeBreakApply(t)
    \/ \E t \in Callers : TakeBreakReduce(t)
    \/ \E t \in Callers : TakeBreakRegister(t)
    \/ \E t \in Callers : TakeBreakRaise(t)
    \/ \E t \in Callers : PerformBreakReturn(t)
    \/ \E t \in Callers : PerformBreakEndDelay(t)
    \/ WorkerAcquire
    \/ WorkerStep

SpecPerform == InitPerform /\ [][NextPerform]_vars

\* C34: perform_break with an empty options sequence raises its error
\* without touching the core: the levels, last_break_time and the last
\* change time are unchanged, the lock is neither taken nor waited for, no
\* delay starts, and no perform_break with empty options is ever under way.
EmptyOptionsRejected ==
    /\ [](\A t \in Callers : loc[t].performing => loc[t].options > 0)
    /\ [][out'.kind = "value_error"
            => /\ UNCHANGED <<agent_level, last_break_time, boss_level,
                              last_cooldown_time, lock, pc, loc, serial>>
               /\ pc[out'.thread] = "idle"]_vars

WitnessValueErrorWhileLocked ==
    /\ out.kind = "value_error"
    /\ lock = Worker
    /\ boss_level = MaxAlert
    /\ \E t \in Callers : pc[t] = "delay"

\* C35: perform_break reports delay_applied exactly when its take_break
\* asked for the delay and apply_delay is set; it sleeps only then, a caller
\* with apply_delay unset never sleeps and reports delay_applied unset, a
\* reported delay has run for DelaySeconds, and once no call is inside its
\* critical section the core's fields are those of applying take_break once
\* per call.
DelayAppliedIffRequested ==
    /\ [](out.kind = "outcome"
            => /\ out.delay_applied <=> (out.should_delay /\ out.apply_delay)
               /\ out.should_delay <=> out.boss_alert_level = MaxAlert)
    /\ [](\A t \in Callers :
            pc[t] \in {"delay", "respond"}
                => loc[t].apply_delay /\ loc[t].boss = MaxAlert)
    /\ [](lock = NoThread => Fields = serial)
    /\ [][\A t \in Callers :
            /\ (pc[t] = "tb_return" /\ pc'[t] = "idle")
                 => /\ out'.kind = "outcome" /\ out'.thread = t
                    /\ ~out'.delay_applied
                    /\ out'.stress_level = agent_level
                    /\ out'.boss_alert_level = boss_level
            /\ (pc[t] = "respond" /\ pc'[t] = "idle")
                 => /\ out'.kind = "outcome" /\ out'.thread = t
                    /\ out'.delay_applied
                    /\ now >= loc[t].t_sleep + DelaySeconds]_vars

WitnessDelaySkipped ==
    /\ out.kind = "outcome"
    /\ out.should_delay
    /\ ~out.apply_delay
    /\ ~out.delay_applied
    /\ \E t \in Callers : pc[t] = "delay"

\* C38: an action request adds an event exactly in the step in which it
\* answers with status ok; a request that ends with any other answer (a
\* timeout, a missing process, an MCP error or a tool text that cannot be
\* parsed, from the tool call or from the snapshot fetch that follows it)
\* ends with the event log as it was.
EventRecordedIffOk ==
    [][/\ (web'.event_log # web.event_log)
            <=> (web'.response.request = "action"
                   /\ web'.response.status = "ok")
       /\ \A h \in Handlers :
            (/\ web.req[h].pc \in {"act_call", "act_snapshot"}
             /\ web'.req[h].pc = "idle")
                => /\ web'.response.handler = h
                   /\ web'.response.code \in {500, 502, 503, 504}
                   /\ web'.response.status # "ok"
                   /\ Len(web'.sent) = 1
                   /\ web'.sent[1].outcome # "ok"
                   /\ web'.event_log = web.event_log]_vars

WitnessSnapshotFailedAfterTool ==
    /\ web.response.request = "action"
    /\ web.response.code = 504
    /\ web.sent = <<[tool |-> SnapshotTool, outcome |-> "timeout"]>>
    /\ Len(web.event_log) > 0

\* ------------------------------------------------------------------------
\* MCPClient (webapp/mcp_client.py): the calls of call_tool, the executor
\* threads that write a request and read a line, and the server process
\* ------------------------------------------------------------------------
\* the end of the server process: every readline on its stdout returns
process_exit(c) ==
    [c EXCEPT !.alive = FALSE, !.holder = 0, !.waiting = {}]

\* subprocess.Popen in _ensure_process
start_process(c) ==
    [c EXCEPT !.process = @ + 1, !.alive = TRUE, !.initialized = FALSE,
              !.request_id = 0, !.log = <<>>, !.answered = 0,
              !.consumed = 0, !.holder = 0, !.waiting = {},
              !.handshakes = 0]

ensure_process(c) == IF c.alive THEN c ELSE start_process(c)

\* _send_request up to the readline of _write_and_read: the request is
\* written and the thread starts to read
write_and_read(c, h, id, method) ==
    LET n == Len(c.log) + 1
    IN  [c EXCEPT !.log = Append(@, [id |-> id, method |-> method]),
                  !.task[h] = [pc |-> IF method = "initialize"
                                      THEN "c_init" ELSE "c_call",
                               reader |-> n],
                  !.holder = IF @ = 0 THEN n ELSE @,
                  !.waiting = IF c.holder = 0 THEN @ ELSE @ \cup {n}]

\* call_tool after _ensure_initialized
send_tools_call(c, h) ==
    write_and_read([c EXCEPT !.request_id = @ + 1], h, c.request_id + 1,
                   "tools/call")

\* the caller whose executor thread reads for request r, if it still waits
reader_owner(c, r) ==
    {h \in Handlers : c.task[h].pc \in {"c_init", "c_call"}
                      /\ c.task[h].reader = r}

InitClient ==
    /\ now = 0
    /\ alertness_probability = 50
    /\ cooldown_seconds = 300
    /\ agent_level = 0
    /\ last_break_time = 0
    /\ boss_level = 0
    /\ last_cooldown_time = 0
    /\ lock = NoThread
    /\ pc = [t \in Threads |-> IF t = Worker THEN "w_sleep" ELSE "idle"]
    /\ loc = [t \in Threads |->
                IF t = Worker THEN [NoLocals EXCEPT !.wake = WorkerPeriod]
                ELSE NoLocals]
    /\ out = NoOut
    /\ serial = [agent_level |-> 0, last_break_time |-> 0, boss_level |-> 0,
                 last_cooldown_time |-> 0]
    /\ break_count = 0
    /\ history = NoHistory
    /\ web = NoWeb

\* call_tool up to `async with self._lock`
CallTool(h) ==
    /\ web.mcp.task[h].pc = "idle"
    /\ web' = [web EXCEPT !.mcp.task[h].pc = "c_lock",
                          !.mcp.returned = NoReturn]
    /\ UNCHANGED core

\* the lock is taken; _ensure_process starts a process if none runs and
\* _ensure_initialized sends initialize with id 1 unless _initialized, else
\* call_tool sends its tools/call; the process may be gone by the time the
\* thread polls it (MCPProcessError)
ClientAcquire(h) ==
    /\ web.mcp.lock = "none"
    /\ web.mcp.task[h].pc = "c_lock"
    /\ LET p == ensure_process(web.mcp)
       IN  /\ p.process <= MaxProcesses
           /\ Len(p.log) + (IF p.initialized THEN 1 ELSE 2) <= MaxSent
           /\ \E exited \in BOOLEAN :
                web' = [web EXCEPT !.mcp =
                    IF exited
                    THEN [process_exit(p) EXCEPT
                            !.task[h] = NoCall,
                            !.returned = [NoReturn EXCEPT
                                            !.handler = h,
                                            !.kind = "process"]]
                    ELSE [(IF p.initialized
                           THEN send_tools_call(p, h)
                           ELSE write_and_read(p, h, 1, "initialize"))
                            EXCEPT !.lock = h, !.returned = NoReturn]]
    /\ UNCHANGED core

\* the server writes the response to the next request it has read
ServerAnswer ==
    /\ web.mcp.alive
    /\ web.mcp.answered < Len(web.mcp.log)
    /\ web' = [web EXCEPT !.mcp.answered = @ + 1,
                          !.mcp.returned = NoReturn]
    /\ UNCHANGED core

\* stdout.readline() returns the next line to the thread that is inside the
\* read, and one of the threads that queue for the stream enters it. The
\* line is dropped if the thread's caller has timed out; it completes the
\* handshake of _ensure_initialized, after which call_tool sends its
\* tools/call; or it is what call_tool returns
ReaderTake ==
    /\ web.mcp.alive
    /\ web.mcp.holder # 0
    /\ web.mcp.consumed < web.mcp.answered
    /\ LET c == web.mcp
           line == c.consumed + 1
           r == c.holder
       IN  \E nh \in (IF c.waiting = {} THEN {0} ELSE c.waiting) :
             LET base == [c EXCEPT !.consumed = line, !.holder = nh,
                                   !.waiting = @ \ {nh},
                                   !.returned = NoReturn]
             IN  web' = [web EXCEPT !.mcp =
                     IF reader_owner(c, r) = {} THEN base
                     ELSE LET h == CHOOSE o \in reader_owner(c, r) : TRUE
                          IN  IF c.task[h].pc = "c_init"
                              THEN send_tools_call(
                                      [base EXCEPT !.initialized = TRUE,
                                                   !.request_id = 1,
                                                   !.handshakes = @ + 1],
                                      h)
                              ELSE [base EXCEPT
                                      !.task[h] = NoCall,
                                      !.lock = "none",
                                      !.returned =
                                          [handler |-> h,
                                           kind |-> "response",
                                           request_id |-> c.log[r].id,
                                           response_id |-> c.log[line].id,
                                           request |-> r,
                                           line |-> line]]]
    /\ UNCHANGED core

\* asyncio.wait_for gives up: the caller gets MCPTimeoutError and leaves the
\* lock, the executor thread stays in its readline
CallTimeout(h) ==
    /\ web.mcp.task[h].pc \in {"c_init", "c_call"}
    /\ web' = [web EXCEPT
                 !.mcp.task[h] = NoCall,
                 !.mcp.lock = "none",
                 !.mcp.returned =
                     [NoReturn EXCEPT
                        !.handler = h, !.kind = "timeout",
                        !.request_id =
                            web.mcp.log[web.mcp.task[h].reader].id,
                        !.request = web.mcp.task[h].reader]]
    /\ UNCHANGED core

\* the server process exits: a caller that waits for a line gets an empty
\* one (MCPTimeoutError)
ProcessExit ==
    /\ web.mcp.alive
    /\ LET c == web.mcp
           waiter == {h \in Handlers : c.task[h].pc \in {"c_init", "c_call"}}
       IN  web' = [web EXCEPT !.mcp =
               IF waiter = {}
               THEN [process_exit(c) EXCEPT !.returned = NoReturn]
               ELSE LET h == CHOOSE o \in waiter : TRUE
                    IN  [process_exit(c) EXCEPT
                           !.task[h] = NoCall,
                           !.lock = "none",
                           !.returned =
                               [NoReturn EXCEPT
                                  !.handler = h, !.kind = "timeout",
                                  !.request_id = c.log[c.task[h].reader].id,
                                  !.request = c.task[h].reader]]]
    /\ UNCHANGED core

\* close(), between calls
ClientClose ==
    /\ web.mcp.alive
    /\ web.mcp.lock = "none"
    /\ web' = [web EXCEPT !.mcp = [process_exit(web.mcp) EXCEPT
                                     !.initialized = FALSE,
                                     !.request_id = 0,
                                     !.returned = NoReturn]]
    /\ UNCHANGED core

NextClient ==
    \/ \E h \in Handlers : CallTool(h)
    \/ \E h \in Handlers : ClientAcquire(h)
    \/ ServerAnswer
    \/ ReaderTake
    \/ \E h \in Handlers : CallTimeout(h)
    \/ ProcessExit
    \/ ClientClose

SpecClient == InitClient /\ [][NextClient]_vars

\* C36: every response that call_tool returns is the response to the
\* request that call sent: it carries the id of that request and is the
\* line the server wrote for it.
ResponseBelongsToRequest ==
    web.mcp.returned.kind = "response"
        => /\ web.mcp.returned.response_id = web.mcp.returned.request_id
           /\ web.mcp.returned.line = web.mcp.returned.request

\* C37: with each server process the handshake completes at most once and
\* has completed before a tools/call is sent to it, and the ids of the
\* requests sent to the process increase strictly, so that none repeats the
\* id of the initialize request.
HandshakeOnceIdsIncrease ==
    LET log == web.mcp.log
    IN  /\ web.mcp.handshakes <= 1
        /\ \A j \in 1..Len(log) :
             log[j].method = "tools/call"
               => /\ web.mcp.handshakes = 1
                  /\ \E i \in 1..(j - 1) : log[i].method = "initialize"
        /\ \A i, j \in 1..Len(log) : i < j => log[i].id < log[j].id

====
